---- MODULE Spec2Model ----
(***************************************************************************)
(* A model of the chess rule engine of shoejunk/chess: chess_piece.py      *)
(* (piece geometry), chess_board.py (the grid, the attack oracle, the      *)
(* simulate-and-restore validator, the move executor) and game_logic.py    *)
(* (the turn controller).                                                  *)
(*                                                                         *)
(* Python objects are modelled as a heap: every piece created by           *)
(* Board.setup_pieces is an object identity 1..32 with constant class and  *)
(* color and mutable attributes position and has_moved; a grid cell holds  *)
(* an identity or None. A Board value B is the record                      *)
(*   [board, position, has_moved]                                          *)
(* and every method that writes the board returns the Board it leaves      *)
(* behind together with its return value, so that the callers thread the   *)
(* mutations exactly as the interpreter would.                             *)
(***************************************************************************)
EXTENDS Integers, Sequences, FiniteSets, TLC

VARIABLES board, position, has_moved, current_turn, move_history, result, outcome,
          dragging, selected_piece, start_cell, game_over, game_result, winner,
          running, call, where, move

vars == <<board, position, has_moved, current_turn, move_history, result, outcome,
          dragging, selected_piece, start_cell, game_over, game_result, winner,
          running, call, where, move>>

\* The fields of the UIManager object, and the record of the call of
\* make_move the last step of the UI made.
ui == <<dragging, selected_piece, start_cell, game_over, game_result, winner, running, call>>

\* The position in main of ai_opponent.py and its local variable move.
demo == <<where, move>>

(***************************************************************************)
(* Bounds of the exploration.                                              *)
(***************************************************************************)
\* Every game of at most MaxFree accepted moves is explored, whatever the moves.
MaxFree == 1

\* How far outside the grid the destinations go, where make_move is called
\* with destinations that are not squares of the grid.
Margin == 1

(***************************************************************************)
(* Python values.                                                          *)
(***************************************************************************)
\* The empty cell, Python's None (an object identity no piece has).
None == 0

\* range(8): the rows and the columns of the grid.
Range8 == 0..7

Squares == Range8 \X Range8

Abs(n) == IF n < 0 THEN -n ELSE n

Max(a, b) == IF a >= b THEN a ELSE b

\* 0 if equal, else +1 or -1: the step expressions of the path scans.
Step(from, to) == IF to = from THEN 0 ELSE (IF to > from THEN 1 ELSE -1)

\* A Python list index: -8..-1 count from the end, anything else outside
\* 0..7 raises IndexError.
IndexOk(i) == i \in -8..7

PyIndex(i) == IF i < 0 THEN i + 8 ELSE i

\* grid[r][c] for a list of lists, the indices being ones that do not raise.
Cell(B, r, c) == B.board[PyIndex(r)][PyIndex(c)]

(***************************************************************************)
(* The pieces: Board.setup_pieces creates 32 objects.                      *)
(***************************************************************************)
Pieces == 1..32

placement == <<"Rook", "Knight", "Bishop", "Queen", "King", "Bishop", "Knight", "Rook">>

\* The class of each object: 1..8 white pawns, 9..16 black pawns, 17..24 the
\* white back rank, 25..32 the black back rank, each by column.
Kind == [p \in Pieces |-> IF p <= 16 THEN "Pawn" ELSE placement[((p - 17) % 8) + 1]]

Color == [p \in Pieces |-> IF p \in (1..8) \cup (17..24) THEN "white" ELSE "black"]

\* The grid after setup_pieces.
InitialBoard ==
  [r \in Range8 |-> [c \in Range8 |->
     CASE r = 1 -> 1 + c
       [] r = 6 -> 9 + c
       [] r = 0 -> 17 + c
       [] r = 7 -> 25 + c
       [] OTHER -> None]]

\* Every piece is constructed with the square of the cell it is put in.
InitialPosition ==
  [p \in Pieces |->
     CASE p <= 8 -> <<1, p - 1>>
       [] p <= 16 -> <<6, p - 9>>
       [] p <= 24 -> <<0, p - 17>>
       [] OTHER -> <<7, p - 25>>]

\* Rook.__init__ and King.__init__ set has_moved to False; the other classes
\* have no such attribute, which the model keeps FALSE and never reads.
InitialHasMoved == [p \in Pieces |-> FALSE]

HasAttrHasMoved(p) == Kind[p] \in {"Rook", "King"}

NewBoard == [board |-> InitialBoard, position |-> InitialPosition, has_moved |-> InitialHasMoved]

(***************************************************************************)
(* chess_piece.py: piece geometry.                                         *)
(***************************************************************************)
\* Piece._get_square on a Board object: board.board[row][col], None on
\* IndexError.
Piece_get_square(B, pos) ==
  IF IndexOk(pos[1]) /\ IndexOk(pos[2])
  THEN Cell(B, pos[1], pos[2])
  ELSE None

\* A scan that looks at no square.
Piece_is_path_clear_Unscanned(B, start, end) == TRUE

\* Piece._is_path_clear: the loop visits the squares strictly between start
\* and end, start + k * step for k = 1 .. n - 1, where n steps lead from
\* start to end; its callers pass squares of one row, column or diagonal.
Piece_is_path_clear(B, start, end) ==
  LET step_x == Step(start[1], end[1])
      step_y == Step(start[2], end[2])
      n == Max(Abs(end[1] - start[1]), Abs(end[2] - start[2]))
  IN \A k \in 1..(n - 1) :
       Piece_get_square(B, <<start[1] + k * step_x, start[2] + k * step_y>>) = None

\* A test that never sees a piece of the mover's color.
OwnPieceAt_Ignored(B, self, pos) == FALSE

\* "target is not None and target.color == self.color"
OwnPieceAt(B, self, pos) ==
  LET target == Piece_get_square(B, pos)
  IN target # None /\ Color[target] = Color[self]

\* A pawn that may also step diagonally onto an empty square.
Pawn_is_valid_move_OntoEmpty(B, self, new_position) ==
  LET row == B.position[self][1]
      col == B.position[self][2]
      nrow == new_position[1]
      ncol == new_position[2]
      direction == IF Color[self] = "white" THEN 1 ELSE -1
      starting_row == IF Color[self] = "white" THEN 1 ELSE 6
  IN \/ /\ nrow = row + direction /\ ncol = col
        /\ Piece_get_square(B, new_position) = None
     \/ /\ nrow = row + 2 * direction /\ ncol = col /\ row = starting_row
        /\ Piece_get_square(B, <<row + direction, col>>) = None
        /\ Piece_get_square(B, new_position) = None
     \/ /\ nrow = row + direction /\ Abs(ncol - col) = 1
        /\ ~OwnPieceAt(B, self, new_position)

\* A pawn that may also step one row backward onto an empty square.
Pawn_is_valid_move_Retreating(B, self, new_position) ==
  LET row == B.position[self][1]
      col == B.position[self][2]
      nrow == new_position[1]
      ncol == new_position[2]
      direction == IF Color[self] = "white" THEN 1 ELSE -1
      starting_row == IF Color[self] = "white" THEN 1 ELSE 6
  IN \/ /\ Abs(nrow - row) = 1 /\ ncol = col
        /\ Piece_get_square(B, new_position) = None
     \/ /\ nrow = row + 2 * direction /\ ncol = col /\ row = starting_row
        /\ Piece_get_square(B, <<row + direction, col>>) = None
        /\ Piece_get_square(B, new_position) = None
     \/ /\ nrow = row + direction /\ Abs(ncol - col) = 1
        /\ LET target == Piece_get_square(B, new_position)
           IN target # None /\ Color[target] # Color[self]

Pawn_is_valid_move(B, self, new_position) ==
  LET row == B.position[self][1]
      col == B.position[self][2]
      nrow == new_position[1]
      ncol == new_position[2]
      direction == IF Color[self] = "white" THEN 1 ELSE -1
      starting_row == IF Color[self] = "white" THEN 1 ELSE 6
  IN \/ /\ nrow = row + direction /\ ncol = col
        /\ Piece_get_square(B, new_position) = None
     \/ /\ nrow = row + 2 * direction /\ ncol = col /\ row = starting_row
        /\ Piece_get_square(B, <<row + direction, col>>) = None
        /\ Piece_get_square(B, new_position) = None
     \/ /\ nrow = row + direction /\ Abs(ncol - col) = 1
        /\ LET target == Piece_get_square(B, new_position)
           IN target # None /\ Color[target] # Color[self]

Rook_is_valid_move(B, self, new_position) ==
  LET x == B.position[self][1]
      y == B.position[self][2]
      nx == new_position[1]
      ny == new_position[2]
  IN IF x # nx /\ y # ny THEN FALSE
     ELSE IF ~Piece_is_path_clear(B, B.position[self], new_position) THEN FALSE
     ELSE ~OwnPieceAt(B, self, new_position)

Knight_is_valid_move(B, self, new_position) ==
  LET x == B.position[self][1]
      y == B.position[self][2]
      nx == new_position[1]
      ny == new_position[2]
  IN IF <<Abs(x - nx), Abs(y - ny)>> \in {<<1, 2>>, <<2, 1>>}
     THEN ~OwnPieceAt(B, self, new_position)
     ELSE FALSE

Bishop_is_valid_move(B, self, new_position) ==
  LET x == B.position[self][1]
      y == B.position[self][2]
      nx == new_position[1]
      ny == new_position[2]
  IN IF Abs(x - nx) # Abs(y - ny) THEN FALSE
     ELSE IF ~Piece_is_path_clear(B, B.position[self], new_position) THEN FALSE
     ELSE ~OwnPieceAt(B, self, new_position)

Queen_is_valid_move(B, self, new_position) ==
  LET x == B.position[self][1]
      y == B.position[self][2]
      nx == new_position[1]
      ny == new_position[2]
  IN IF (x = nx \/ y = ny) \/ (Abs(x - nx) = Abs(y - ny))
     THEN IF ~Piece_is_path_clear(B, B.position[self], new_position) THEN FALSE
          ELSE ~OwnPieceAt(B, self, new_position)
     ELSE FALSE

(***************************************************************************)
(* chess_board.py: the attack oracle.                                      *)
(***************************************************************************)
\* A scan that looks at no square.
Board_path_clear_Unscanned(B, start, end) == TRUE

\* Board._path_clear: the same scan, reading the grid directly.
Board_path_clear(B, start, end) ==
  LET dr == Step(start[1], end[1])
      dc == Step(start[2], end[2])
      n == Max(Abs(end[1] - start[1]), Abs(end[2] - start[2]))
  IN \A k \in 1..(n - 1) : Cell(B, start[1] + k * dr, start[2] + k * dc) = None

\* Whether the piece in a cell covers square by its capture pattern.
Attacks(B, piece, square) ==
  LET pr == B.position[piece][1]
      pc == B.position[piece][2]
      target_r == square[1]
      target_c == square[2]
  IN CASE Kind[piece] = "Pawn" ->
            LET direction == IF Color[piece] = "white" THEN 1 ELSE -1
            IN square \in {<<pr + direction, pc - 1>>, <<pr + direction, pc + 1>>}
       [] Kind[piece] = "Knight" ->
            <<Abs(pr - target_r), Abs(pc - target_c)>> \in {<<1, 2>>, <<2, 1>>}
       [] Kind[piece] = "King" ->
            Max(Abs(pr - target_r), Abs(pc - target_c)) = 1
       [] Kind[piece] = "Rook" ->
            /\ (pr = target_r \/ pc = target_c)
            /\ Board_path_clear(B, B.position[piece], square)
       [] Kind[piece] = "Bishop" ->
            /\ Abs(pr - target_r) = Abs(pc - target_c)
            /\ Board_path_clear(B, B.position[piece], square)
       [] Kind[piece] = "Queen" ->
            /\ (pr = target_r \/ pc = target_c \/ Abs(pr - target_r) = Abs(pc - target_c))
            /\ Board_path_clear(B, B.position[piece], square)

\* An oracle that scans the columns 0 to 3 only.
is_square_under_attack_HalfScan(B, square, color) ==
  \E r \in Range8, c \in 0..3 :
    LET piece == B.board[r][c]
    IN /\ piece # None
       /\ Color[piece] # color
       /\ B.position[piece] # square
       /\ Attacks(B, piece, square)

\* Board.is_square_under_attack: the scan returns True at the first cell whose
\* piece covers the square, False after the last cell.
is_square_under_attack(B, square, color) ==
  \E r \in Range8, c \in Range8 :
    LET piece == B.board[r][c]
    IN /\ piece # None
       /\ Color[piece] # color
       /\ B.position[piece] # square
       /\ Attacks(B, piece, square)

(***************************************************************************)
(* chess_piece.py: the king, whose geometry consults the attack oracle.    *)
(***************************************************************************)
\* "rook is None or rook.__class__.__name__ != 'Rook' or
\*  getattr(rook, 'has_moved', True)": the castling partner is refused.
NotCastlingRook(B, rook) ==
  rook = None \/ Kind[rook] # "Rook" \/ B.has_moved[rook]

\* A king's geometry that castles without asking the oracle about the squares
\* the king crosses.
AnyUnderAttack_Unasked(B, squares, color) == FALSE

\* "for square in [...]: if board.is_square_under_attack(square, self.color):
\*  return False"
AnyUnderAttack(B, squares, color) ==
  \E square \in squares : is_square_under_attack(B, square, color)

\* King.is_valid_move(board, new_position); has_oracle is
\* hasattr(board, "is_square_under_attack"), the condition under which the
\* geometry asks the attack oracle.
King_is_valid_move_on(B, self, new_position, has_oracle) ==
  LET row == B.position[self][1]
      col == B.position[self][2]
      nrow == new_position[1]
      ncol == new_position[2]
      color == Color[self]
  IN IF OwnPieceAt(B, self, new_position) THEN FALSE
     ELSE IF Abs(nrow - row) <= 1 /\ Abs(ncol - col) <= 1
     THEN ~(has_oracle /\ is_square_under_attack(B, new_position, color))
     ELSE IF nrow = row /\ Abs(ncol - col) = 2 /\ ~B.has_moved[self]
     THEN IF has_oracle /\ is_square_under_attack(B, B.position[self], color) THEN FALSE
          ELSE IF ncol > col
          THEN \* Kingside castling.
               IF NotCastlingRook(B, Piece_get_square(B, <<row, 7>>)) THEN FALSE
               ELSE IF Piece_get_square(B, <<row, col + 1>>) # None THEN FALSE
               ELSE IF has_oracle /\ AnyUnderAttack(B, {<<row, col + 1>>, <<row, col + 2>>}, color)
               THEN FALSE
               ELSE TRUE
          ELSE \* Queenside castling.
               IF NotCastlingRook(B, Piece_get_square(B, <<row, 0>>)) THEN FALSE
               ELSE IF \/ Piece_get_square(B, <<row, col - 1>>) # None
                       \/ Piece_get_square(B, <<row, col - 2>>) # None
               THEN FALSE
               ELSE IF Piece_get_square(B, <<row, col - 3>>) # None THEN FALSE
               ELSE IF has_oracle /\ AnyUnderAttack(B, {<<row, col - 1>>, <<row, col - 2>>}, color)
               THEN FALSE
               ELSE TRUE
     ELSE FALSE

\* King.is_valid_move on a Board object, which has the oracle.
King_is_valid_move(B, self, new_position) ==
  King_is_valid_move_on(B, self, new_position, TRUE)

\* piece.is_valid_move(board, new_position): dispatch on the class.
Piece_is_valid_move(B, piece, new_position) ==
  CASE Kind[piece] = "Pawn" -> Pawn_is_valid_move(B, piece, new_position)
    [] Kind[piece] = "Rook" -> Rook_is_valid_move(B, piece, new_position)
    [] Kind[piece] = "Knight" -> Knight_is_valid_move(B, piece, new_position)
    [] Kind[piece] = "Bishop" -> Bishop_is_valid_move(B, piece, new_position)
    [] Kind[piece] = "Queen" -> Queen_is_valid_move(B, piece, new_position)
    [] Kind[piece] = "King" -> King_is_valid_move(B, piece, new_position)

(***************************************************************************)
(* chess_board.py: the validator, which moves the piece, looks and puts    *)
(* everything back.                                                        *)
(***************************************************************************)
\* self.board[r][c] = value
SetCell(B, r, c, value) == [B EXCEPT !.board[PyIndex(r)][PyIndex(c)] = value]

\* piece.position = pos
SetPosition(B, piece, pos) == [B EXCEPT !.position[piece] = pos]

\* A scan that finds no king.
FindKing_Lost(B, color) == <<>>

\* The first cell, rows then columns, that holds a king of the color; <<>>
\* when the scan ends with king_pos still None.
FindKing(B, color) ==
  LET found == {k \in 0..63 : LET p == B.board[k \div 8][k % 8]
                              IN p # None /\ Kind[p] = "King" /\ Color[p] = color}
  IN IF found = {} THEN <<>>
     ELSE LET k == CHOOSE k \in found : \A j \in found : k <= j
          IN <<k \div 8, k % 8>>

\* The castling part of the simulation: the rook found in the corner is
\* moved beside the king if it is an unmoved Rook.
SimulateRook(B, rook, original_x, rook_col, new_rook_col) ==
  IF rook # None /\ Kind[rook] = "Rook" /\ ~B.has_moved[rook]
  THEN SetPosition(SetCell(SetCell(B, original_x, rook_col, None),
                           original_x, new_rook_col, rook),
                   rook, <<original_x, new_rook_col>>)
  ELSE B

\* A restore that leaves the rook where the simulation put it.
RestoreRook_Forgotten(B, rook, original_x, rook_col, new_rook_col) == B

\* "if rook:" puts the rook back in its corner and empties its new cell.
RestoreRook(B, rook, original_x, rook_col, new_rook_col) ==
  IF rook # None
  THEN SetPosition(SetCell(SetCell(B, original_x, rook_col, rook),
                           original_x, new_rook_col, None),
                   rook, <<original_x, rook_col>>)
  ELSE B

\* "Temporarily move the piece": the origin cell is emptied, the piece is
\* put in the new cell and told its new position.
SimulateMove(B, piece, original_x, original_y, new_x, new_y) ==
  SetPosition(SetCell(SetCell(B, original_x, original_y, None), new_x, new_y, piece),
              piece, <<new_x, new_y>>)

\* A restore that forgets the piece's position attribute.
RestoreMove_NoPosition(B, piece, original_x, original_y, new_x, new_y, original_piece_old_pos, original_piece_new_pos) ==
  SetCell(SetCell(B, original_x, original_y, original_piece_old_pos),
          new_x, new_y, original_piece_new_pos)

\* "Restore board state": both cells get back what they held and the piece
\* its position.
RestoreMove(B, piece, original_x, original_y, new_x, new_y, original_piece_old_pos, original_piece_new_pos) ==
  SetPosition(SetCell(SetCell(B, original_x, original_y, original_piece_old_pos),
                      new_x, new_y, original_piece_new_pos),
              piece, <<original_x, original_y>>)

\* A validator that returns in_check instead of its negation.
Verdict_Inverted(in_check) == in_check

\* A validator that never looks at in_check.
Verdict_Unchecked(in_check) == TRUE

\* "return not in_check"
Verdict(in_check) == ~in_check

\* Board.is_valid_move(piece, new_position) raises IndexError: the geometry
\* accepts the move and "original_piece_new_pos = self.board[new_x][new_y]",
\* the first statement to index the grid with the destination, and one that
\* precedes every write, is given an index no list of 8 has.
is_valid_move_raises(B, piece, new_position) ==
  /\ Piece_is_valid_move(B, piece, new_position)
  /\ ~(IndexOk(new_position[1]) /\ IndexOk(new_position[2]))

\* Board.is_valid_move(piece, new_position), when it does not raise: its
\* return value and the Board it leaves.
Board_is_valid_move(B, piece, new_position) ==
  IF ~Piece_is_valid_move(B, piece, new_position) THEN [ret |-> FALSE, B |-> B]
  ELSE
    LET original_x == B.position[piece][1]
        original_y == B.position[piece][2]
        new_x == new_position[1]
        new_y == new_position[2]
        original_piece_new_pos == Cell(B, new_x, new_y)
        original_piece_old_pos == Cell(B, original_x, original_y)
        B1 == SimulateMove(B, piece, original_x, original_y, new_x, new_y)
        \* Handle castling simulation.
        castling == Kind[piece] = "King" /\ Abs(new_y - original_y) = 2
        rook_col == IF new_y > original_y THEN 7 ELSE 0
        new_rook_col == IF new_y > original_y THEN new_y - 1 ELSE new_y + 1
        rook == IF castling THEN Cell(B1, original_x, rook_col) ELSE None
        B2 == IF castling
              THEN SimulateRook(B1, rook, original_x, rook_col, new_rook_col)
              ELSE B1
        \* Find the king of the same color; check if it is in check.
        king_pos == FindKing(B2, Color[piece])
        in_check == IF king_pos # <<>>
                    THEN is_square_under_attack(B2, king_pos, Color[piece])
                    ELSE FALSE
        B3 == RestoreMove(B2, piece, original_x, original_y, new_x, new_y,
                          original_piece_old_pos, original_piece_new_pos)
        B4 == RestoreRook(B3, rook, original_x, rook_col, new_rook_col)
    IN [ret |-> Verdict(in_check), B |-> B4]

\* A move_piece that never sets the flag of the piece it moves.
MarkMoved_Forgotten(B, piece) == B

\* piece.has_moved = True, for the classes that have the attribute.
MarkMoved(B, piece) ==
  IF HasAttrHasMoved(piece) THEN [B EXCEPT !.has_moved[piece] = TRUE] ELSE B

\* A castling that moves the rook and leaves its flag as it was.
CastleRook_Unmarked(B, x, rook_col, new_rook_col) ==
  LET rook == Cell(B, x, rook_col)
  IN IF rook # None /\ Kind[rook] = "Rook" /\ ~B.has_moved[rook]
     THEN SetPosition(SetCell(SetCell(B, x, rook_col, None), x, new_rook_col, rook),
                      rook, <<x, new_rook_col>>)
     ELSE B

\* The castling part of move_piece: the rook in the corner of the king's row
\* goes to the square the king passed over.
CastleRook(B, x, rook_col, new_rook_col) ==
  LET rook == Cell(B, x, rook_col)
  IN IF rook # None /\ Kind[rook] = "Rook" /\ ~B.has_moved[rook]
     THEN [SetPosition(SetCell(SetCell(B, x, rook_col, None), x, new_rook_col, rook),
                       rook, <<x, new_rook_col>>)
             EXCEPT !.has_moved[rook] = TRUE]
     ELSE B

\* A move that leaves the piece in its origin cell as well.
PlacePiece_KeepsOrigin(B, piece, x, y, nx, ny) ==
  SetPosition(SetCell(B, nx, ny, piece), piece, <<nx, ny>>)

\* The move itself: the new cell takes the piece, the origin cell is
\* emptied, piece.update_position(new_position).
PlacePiece(B, piece, x, y, nx, ny) ==
  SetPosition(SetCell(SetCell(B, nx, ny, piece), x, y, None), piece, <<nx, ny>>)

\* A move_piece that leaves the rook in its corner.
Castle_Skipped(B, piece, x, y, ny) == B

\* "Handle castling: move the rook", for a king's move of two columns.
Castle(B, piece, x, y, ny) ==
  IF Kind[piece] = "King" /\ Abs(ny - y) = 2
  THEN IF ny > y THEN CastleRook(B, x, 7, ny - 1)
                 ELSE CastleRook(B, x, 0, ny + 1)
  ELSE B

\* The branches of move_piece, v being what is_valid_move returned and left.
Moved(v, piece, x, y, nx, ny) ==
  IF v.ret
  THEN [ret |-> TRUE,
        B |-> MarkMoved(Castle(PlacePiece(v.B, piece, x, y, nx, ny), piece, x, y, ny), piece)]
  ELSE [ret |-> FALSE, B |-> v.B]

\* Board.move_piece(current_position, new_position)
move_piece(B, current_position, new_position) ==
  LET x == current_position[1]
      y == current_position[2]
      piece == B.board[x][y]
  IN IF piece = None THEN [ret |-> FALSE, B |-> B]
     ELSE Moved(Board_is_valid_move(B, piece, new_position),
                piece, x, y, new_position[1], new_position[2])

\* Board.is_king_in_check(color)
is_king_in_check(B, color) ==
  LET king_pos == FindKing(B, color)
  IN IF king_pos = <<>> THEN FALSE
     ELSE is_square_under_attack(B, king_pos, color)

\* The inner loops of has_valid_moves for one piece: is_valid_move is called
\* on the targets lo..hi-1 in order, each call on the Board the one before
\* left, until one returns True. The range is split in halves, which keeps
\* the order of the calls.
RECURSIVE has_valid_moves_targets(_, _, _, _)

\* first is what the calls on the targets before mid returned and left.
TargetsFrom(first, piece, mid, hi) ==
  IF first.ret THEN first ELSE has_valid_moves_targets(first.B, piece, mid, hi)

has_valid_moves_targets(B, piece, lo, hi) ==
  IF hi - lo = 1 THEN Board_is_valid_move(B, piece, <<lo \div 8, lo % 8>>)
  ELSE TargetsFrom(has_valid_moves_targets(B, piece, lo, (lo + hi) \div 2),
                   piece, (lo + hi) \div 2, hi)

\* The outer loops of has_valid_moves: the cells lo..hi-1 in order, rows then
\* columns; a cell that is empty or holds a piece of the other color is
\* skipped.
RECURSIVE has_valid_moves_cells(_, _, _, _)

\* first is what the scan of the cells before mid returned and left.
CellsFrom(first, color, mid, hi) ==
  IF first.ret THEN first ELSE has_valid_moves_cells(first.B, color, mid, hi)

has_valid_moves_cells(B, color, lo, hi) ==
  IF hi - lo = 1
  THEN LET piece == B.board[lo \div 8][lo % 8]
       IN IF piece = None \/ Color[piece] # color
          THEN [ret |-> FALSE, B |-> B]
          ELSE has_valid_moves_targets(B, piece, 0, 64)
  ELSE CellsFrom(has_valid_moves_cells(B, color, lo, (lo + hi) \div 2),
                 color, (lo + hi) \div 2, hi)

\* A scan that stops after the first four rows.
has_valid_moves_HalfBoard(B, color) == has_valid_moves_cells(B, color, 0, 32)

\* Board.has_valid_moves(color)
has_valid_moves(B, color) == has_valid_moves_cells(B, color, 0, 64)

\* A classification that takes the side to move to have no valid move.
NoValidMoves_Assumed(h) == [ret |-> TRUE, B |-> h.B]

\* "not self.has_valid_moves(color)", h being what has_valid_moves returned
\* and left.
NoValidMoves(h) == [ret |-> ~h.ret, B |-> h.B]

\* Board.is_checkmate(color): "is_king_in_check and not has_valid_moves"
is_checkmate(B, color) ==
  IF ~is_king_in_check(B, color) THEN [ret |-> FALSE, B |-> B]
  ELSE NoValidMoves(has_valid_moves(B, color))

\* Board.is_stalemate(color): "not is_king_in_check and not has_valid_moves"
is_stalemate(B, color) ==
  IF is_king_in_check(B, color) THEN [ret |-> FALSE, B |-> B]
  ELSE NoValidMoves(has_valid_moves(B, color))

(***************************************************************************)
(* game_logic.py: the turn controller. A Game value G is the record        *)
(*   [B, current_turn, move_history].                                      *)
(***************************************************************************)
NewGame == [B |-> NewBoard, current_turn |-> "white", move_history |-> <<>>]

\* Game.switch_turn
switch_turn(turn) == IF turn = "white" THEN "black" ELSE "white"

\* A scan that runs on to the destination cell.
is_path_blocked_ToTheEnd(B, start, end) ==
  LET dx == end[1] - start[1]
      dy == end[2] - start[2]
      steps == Max(Abs(dx), Abs(dy))
  IN IF steps <= 1 THEN FALSE
     ELSE LET step_x == IF dx # 0 THEN dx \div steps ELSE 0
              step_y == IF dy # 0 THEN dy \div steps ELSE 0
          IN \E k \in 1..steps :
               Cell(B, start[1] + k * step_x, start[2] + k * step_y) # None

\* Game.is_path_blocked(start, end); // is Python's floor division. The loop
\* visits start + k * step for k = 1 .. steps - 1.
is_path_blocked(B, start, end) ==
  LET dx == end[1] - start[1]
      dy == end[2] - start[2]
      steps == Max(Abs(dx), Abs(dy))
  IN IF steps <= 1 THEN FALSE
     ELSE LET step_x == IF dx # 0 THEN dx \div steps ELSE 0
              step_y == IF dy # 0 THEN dy \div steps ELSE 0
          IN \E k \in 1..(steps - 1) :
               Cell(B, start[1] + k * step_x, start[2] + k * step_y) # None

\* make_move returns ret, leaving the Board B, the side to move turn and
\* the history.
Return(ret, B, turn, history) ==
  [ret |-> ret, G |-> [B |-> B, current_turn |-> turn, move_history |-> history]]

\* A rejection that passes the turn.
Rejected_TurnPassed(G, B) == Return("False", B, switch_turn(G.current_turn), G.move_history)

\* "return False": the board is what the calls made so far left of it.
Rejected(G, B) == Return("False", B, G.current_turn, G.move_history)

\* "elif self.board.is_stalemate(...)", sm being what is_stalemate returned
\* and left.
StalemateOrContinue(sm, turn, history) ==
  Return(IF sm.ret THEN "stalemate" ELSE "continue", sm.B, turn, history)

\* "if self.board.is_checkmate(...)", cm being what is_checkmate returned and
\* left.
CheckmateOrElse(cm, turn, history) ==
  IF cm.ret THEN Return("checkmate", cm.B, turn, history)
  ELSE StalemateOrContinue(is_stalemate(cm.B, turn), turn, history)

\* What make_move does once move_piece has returned True: the history, the
\* turn, and the classification of the position of the side now to move.
AfterMove(G, B, start, end) ==
  CheckmateOrElse(is_checkmate(B, switch_turn(G.current_turn)),
                  switch_turn(G.current_turn),
                  Append(G.move_history, <<start, end>>))

\* "if self.board.move_piece(start, end)", m being what move_piece returned
\* and left.
Executed(G, start, end, m) ==
  IF m.ret THEN AfterMove(G, m.B, start, end) ELSE Rejected(G, m.B)

\* make_move from "Validate move with piece's own logic" on, v being what
\* is_valid_move returned and left.
Validated(G, piece, start, end, v) ==
  IF ~v.ret THEN Rejected(G, v.B)
  ELSE IF /\ Kind[piece] \in {"Rook", "Bishop", "Queen"}
          /\ is_path_blocked(v.B, start, end)
  THEN Rejected(G, v.B)
  ELSE Executed(G, start, end, move_piece(v.B, start, end))

\* Game.make_move(start, end) raises IndexError: the exception of
\* is_valid_move is not caught.
make_move_raises(G, start, end) ==
  LET piece == G.B.board[start[1]][start[2]]
  IN /\ piece # None
     /\ Color[piece] = G.current_turn
     /\ is_valid_move_raises(G.B, piece, end)

\* Game.make_move(start, end), when it does not raise: its return value
\* ("False" for the Python False) and the Game it leaves.
make_move(G, start, end) ==
  LET piece == G.B.board[start[1]][start[2]]
  IN IF piece = None THEN Rejected(G, G.B)
     ELSE IF Color[piece] # G.current_turn THEN Rejected(G, G.B)
     ELSE Validated(G, piece, start, end, Board_is_valid_move(G.B, piece, end))

(***************************************************************************)
(* game_logic.py: save_game and load_game. pickle writes, for every object *)
(* it reaches from the Game, the class and the attributes of the object,   *)
(* and builds new objects from them when it loads; an object reached twice *)
(* is written once.                                                        *)
(***************************************************************************)
\* A pickle that writes no has_moved attribute, which a loaded king or rook
\* then has as its constructor sets it.
PickledCell_NoFlag(B, p) ==
  IF p = None THEN [class |-> "NoneType"]
  ELSE IF HasAttrHasMoved(p)
  THEN [class |-> Kind[p], position |-> B.position[p], color |-> Color[p],
        has_moved |-> FALSE]
  ELSE [class |-> Kind[p], position |-> B.position[p], color |-> Color[p]]

\* What pickle writes for the content of a cell: None, or the class and the
\* __dict__ of the piece.
PickledCell(B, p) ==
  IF p = None THEN [class |-> "NoneType"]
  ELSE IF HasAttrHasMoved(p)
  THEN [class |-> Kind[p], position |-> B.position[p], color |-> Color[p],
        has_moved |-> B.has_moved[p]]
  ELSE [class |-> Kind[p], position |-> B.position[p], color |-> Color[p]]

\* Game.save_game: pickle.dump(self, f); the file holds the Game's
\* attributes, the grid cell by cell. The pieces no cell holds are not
\* reached.
save_game(G) ==
  [board |-> [r \in Range8 |-> [c \in Range8 |-> PickledCell(G.B, G.B.board[r][c])]],
   current_turn |-> G.current_turn,
   move_history |-> G.move_history]

\* The object pickle.load builds for cell k of the file, rows then columns:
\* None, or a new object of the class and color written, which the model
\* names by the first identity of that class and color not given to an
\* earlier cell.
LoadedObject(data, k) ==
  LET d == data.board[k \div 8][k % 8]
      alike == {p \in Pieces : Kind[p] = d.class /\ Color[p] = d.color}
      rank == Cardinality({j \in 0..k :
                 LET e == data.board[j \div 8][j % 8]
                 IN e.class = d.class /\ e.color = d.color})
  IN IF d.class = "NoneType" THEN None
     ELSE CHOOSE p \in alike : Cardinality({q \in alike : q <= p}) = rank

\* Game.load_game: pickle.load(f). The attributes of the objects built are
\* the ones written; an identity the loaded Game has no object for keeps the
\* attributes of a newly constructed piece.
load_game(data) ==
  LET grid == [r \in Range8 |-> [c \in Range8 |-> LoadedObject(data, 8 * r + c)]]
      CellOf(p) == CHOOSE k \in 0..63 : grid[k \div 8][k % 8] = p
      Loaded(p) == \E k \in 0..63 : grid[k \div 8][k % 8] = p
      Written(p) == data.board[CellOf(p) \div 8][CellOf(p) % 8]
  IN [B |-> [board |-> grid,
             position |-> [p \in Pieces |->
                IF Loaded(p) THEN Written(p).position ELSE InitialPosition[p]],
             has_moved |-> [p \in Pieces |->
                IF Loaded(p) /\ HasAttrHasMoved(p) THEN Written(p).has_moved ELSE FALSE]],
      current_turn |-> data.current_turn,
      move_history |-> data.move_history]

(***************************************************************************)
(* The games explored. A move is a pair <<start, end>> of squares          *)
(* <<row, column>>, row 0 white's home rank, column 0 the a-file.          *)
(***************************************************************************)
\* 1. f3 e5 2. g4 Qh4#: black mates.
FoolsMate ==
    <<<<<<1, 5>>, <<2, 5>>>>, <<<<6, 4>>, <<4, 4>>>>, <<<<1, 6>>, <<3, 6>>>>, <<<<7, 3>>, <<3, 7>>>>>>

\* 1. Nf3 Nc6 2. e3 Nd4 3. Ba6 Ne2 4. a3 Ng1 5. Kxg1: a black knight reaches g1
\* while the white king and the h1 rook have not moved.
KnightRaid ==
    <<<<<<0, 6>>, <<2, 5>>>>, <<<<7, 1>>, <<5, 2>>>>, <<<<1, 4>>, <<2, 4>>>>, <<<<5, 2>>, <<3, 3>>>>,
      <<<<0, 5>>, <<5, 0>>>>, <<<<3, 3>>, <<1, 4>>>>, <<<<1, 0>>, <<2, 0>>>>, <<<<1, 4>>, <<0, 6>>>>,
      <<<<0, 4>>, <<0, 6>>>>>>

\* 1. e4 e5 2. Nf3 Nc6 3. Bb5 d6 (the c6 knight is pinned) 4. O-O Nf6 5. Nc3 Be7
\* 6. d3 O-O
RuyLopez ==
    <<<<<<1, 4>>, <<3, 4>>>>, <<<<6, 4>>, <<4, 4>>>>, <<<<0, 6>>, <<2, 5>>>>, <<<<7, 1>>, <<5, 2>>>>,
      <<<<0, 5>>, <<4, 1>>>>, <<<<6, 3>>, <<5, 3>>>>, <<<<0, 4>>, <<0, 6>>>>, <<<<7, 6>>, <<5, 5>>>>,
      <<<<0, 1>>, <<2, 2>>>>, <<<<7, 5>>, <<6, 4>>>>, <<<<1, 3>>, <<2, 3>>>>, <<<<7, 4>>, <<7, 6>>>>>>

\* 1. e4 e5 2. Nf3 Nc6 3. Bb5 a6 4. Bxc6 dxc6 5. O-O: castling after captures.
Exchange ==
    <<<<<<1, 4>>, <<3, 4>>>>, <<<<6, 4>>, <<4, 4>>>>, <<<<0, 6>>, <<2, 5>>>>, <<<<7, 1>>, <<5, 2>>>>,
      <<<<0, 5>>, <<4, 1>>>>, <<<<6, 0>>, <<5, 0>>>>, <<<<4, 1>>, <<5, 2>>>>, <<<<6, 3>>, <<5, 2>>>>,
      <<<<0, 4>>, <<0, 6>>>>>>

\* 1. e4 f5 2. Qh5+ g6: a check, and the one move that answers it.
EarlyCheck ==
    <<<<<<1, 4>>, <<3, 4>>>>, <<<<6, 5>>, <<4, 5>>>>, <<<<0, 3>>, <<4, 7>>>>, <<<<6, 6>>, <<5, 6>>>>>>

\* 1. d4 d5 2. Qd3 Qd6 3. Bd2 Bd7 4. Nc3 Nc6 5. O-O-O O-O-O
CastleLong ==
    <<<<<<1, 3>>, <<3, 3>>>>, <<<<6, 3>>, <<4, 3>>>>, <<<<0, 3>>, <<2, 3>>>>, <<<<7, 3>>, <<5, 3>>>>,
      <<<<0, 2>>, <<1, 3>>>>, <<<<7, 2>>, <<6, 3>>>>, <<<<0, 1>>, <<2, 2>>>>, <<<<7, 1>>, <<5, 2>>>>,
      <<<<0, 4>>, <<0, 2>>>>, <<<<7, 4>>, <<7, 2>>>>>>

\* 1. e4 b6 2. Be2 Ba6 3. Bg4 Nc6 4. Nh3 Nb8: the a6 bishop covers f1, the
\* square the white king would pass over.
BishopOnA6 ==
    <<<<<<1, 4>>, <<3, 4>>>>, <<<<6, 1>>, <<5, 1>>>>, <<<<0, 5>>, <<1, 4>>>>, <<<<7, 2>>, <<5, 0>>>>,
      <<<<1, 4>>, <<3, 6>>>>, <<<<7, 1>>, <<5, 2>>>>, <<<<0, 6>>, <<2, 7>>>>, <<<<5, 2>>, <<7, 1>>>>>>

\* Sam Loyd's ten-move stalemate: 1. e3 a5 2. Qh5 Ra6 3. Qxa5 h5 4. Qxc7 Rah6
\* 5. h4 f6 6. Qxd7+ Kf7 7. Qxb7 Qd3 8. Qxb8 Qh7 9. Qxc8 Kg6 10. Qe6.
LoydStalemate ==
    <<<<<<1, 4>>, <<2, 4>>>>, <<<<6, 0>>, <<4, 0>>>>, <<<<0, 3>>, <<4, 7>>>>, <<<<7, 0>>, <<5, 0>>>>,
      <<<<4, 7>>, <<4, 0>>>>, <<<<6, 7>>, <<4, 7>>>>, <<<<4, 0>>, <<6, 2>>>>, <<<<5, 0>>, <<5, 7>>>>,
      <<<<1, 7>>, <<3, 7>>>>, <<<<6, 5>>, <<5, 5>>>>, <<<<6, 2>>, <<6, 3>>>>, <<<<7, 4>>, <<6, 5>>>>,
      <<<<6, 3>>, <<6, 1>>>>, <<<<7, 3>>, <<2, 3>>>>, <<<<6, 1>>, <<7, 1>>>>, <<<<2, 3>>, <<6, 7>>>>,
      <<<<7, 1>>, <<7, 2>>>>, <<<<6, 5>>, <<5, 6>>>>, <<<<7, 2>>, <<5, 4>>>>>>

\* 1. Nf3 Nf6 2. e3 e6 3. Be2 Be7 4. Kf1 Rg8 5. Ke1 Rh8 6. a3: the white king
\* and the black h8 rook leave their home squares and return to them.
HomeAgain ==
    <<<<<<0, 6>>, <<2, 5>>>>, <<<<7, 6>>, <<5, 5>>>>, <<<<1, 4>>, <<2, 4>>>>, <<<<6, 4>>, <<5, 4>>>>,
      <<<<0, 5>>, <<1, 4>>>>, <<<<7, 5>>, <<6, 4>>>>, <<<<0, 4>>, <<0, 5>>>>, <<<<7, 7>>, <<7, 6>>>>,
      <<<<0, 5>>, <<0, 4>>>>, <<<<7, 6>>, <<7, 7>>>>, <<<<1, 0>>, <<2, 0>>>>>>

\* 1. a4 b5 2. axb5 a6 3. bxa6 Bb7 4. axb7 Nc6 5. bxa8 h6 6. h3: a white pawn
\* reaches the last row.
PawnToA8 ==
    <<<<<<1, 0>>, <<3, 0>>>>, <<<<6, 1>>, <<4, 1>>>>, <<<<3, 0>>, <<4, 1>>>>, <<<<6, 0>>, <<5, 0>>>>,
      <<<<4, 1>>, <<5, 0>>>>, <<<<7, 2>>, <<6, 1>>>>, <<<<5, 0>>, <<6, 1>>>>, <<<<7, 1>>, <<5, 2>>>>,
      <<<<6, 1>>, <<7, 0>>>>, <<<<6, 7>>, <<5, 7>>>>, <<<<1, 7>>, <<2, 7>>>>>>

\* 1. e4 e5 2. Bc4 Nc6 3. Qh5 Nf6 4. Qxf7#: white mates.
ScholarsMate ==
    <<<<<<1, 4>>, <<3, 4>>>>, <<<<6, 4>>, <<4, 4>>>>, <<<<0, 5>>, <<3, 2>>>>, <<<<7, 1>>, <<5, 2>>>>,
      <<<<0, 3>>, <<4, 7>>>>, <<<<7, 6>>, <<5, 5>>>>, <<<<4, 7>>, <<6, 5>>>>>>

Book == {FoolsMate, KnightRaid, RuyLopez, Exchange, EarlyCheck, CastleLong, BishopOnA6,
         LoydStalemate, HomeAgain, PawnToA8, ScholarsMate}

\* h is the beginning of line.
IsPrefix(h, line) ==
  Len(h) <= Len(line) /\ SubSeq(line, 1, Len(h)) = h

\* The games explored: every game of at most MaxFree accepted moves, and
\* every game that follows a line of Book. Rejected calls are explored in
\* every state.
Explored(h) ==
  Len(h) <= MaxFree \/ \E line \in Book : IsPrefix(h, line)

(***************************************************************************)
(* The state machine: one Game object, and make_move called with any       *)
(* squares of the grid.                                                    *)
(***************************************************************************)
Game == [B |-> [board |-> board, position |-> position, has_moved |-> has_moved],
         current_turn |-> current_turn,
         move_history |-> move_history]

\* The None of start_cell, among squares.
NoCell == <<>>

\* The None that select_move returns, among moves <<start, end>>.
NoMove == <<>>

\* The last step of the UI called make_move(start, end): by is who called,
\* color the color of the piece that stood on start, held whether that piece
\* was the one the drag had picked up, turn the side to move, drag and over
\* the values of dragging and game_over, all before the call.
Call(by, piece, picked, turn, drag, over) ==
  [by |-> by,
   color |-> IF piece = None THEN "none" ELSE Color[piece],
   held |-> piece # None /\ piece = picked,
   turn |-> turn, drag |-> drag, over |-> over]

\* The last step of the UI made no call of make_move.
NoCall == Call("none", None, None, "none", FALSE, FALSE)

\* UIManager.__init__: no drag, the game not over.
InitUI ==
  /\ dragging = FALSE
  /\ selected_piece = None
  /\ start_cell = NoCell
  /\ game_over = FALSE
  /\ game_result = "None"
  /\ winner = "None"
  /\ running = TRUE
  /\ call = NoCall

\* main of ai_opponent.py before the first test of its loop.
InitDemo ==
  /\ where = "while"
  /\ move = NoMove

Init ==
  /\ board = NewGame.B.board
  /\ position = NewGame.B.position
  /\ has_moved = NewGame.B.has_moved
  /\ current_turn = NewGame.current_turn
  /\ move_history = NewGame.move_history
  /\ result = "none"
  /\ outcome = "none"
  /\ InitUI
  /\ InitDemo

\* The Game object becomes G.
Becomes(G) ==
  /\ board' = G.B.board
  /\ position' = G.B.position
  /\ has_moved' = G.B.has_moved
  /\ current_turn' = G.current_turn
  /\ move_history' = G.move_history

\* The piece make_move finds at start.
PieceAt(start) == board[start[1]][start[2]]

\* The Game object and the value returned after a call of make_move that
\* returned r. result is the value the last call returned, outcome the value
\* the last accepted call returned.
Answered(r) ==
  /\ Becomes(r.G)
  /\ result' = r.ret
  /\ outcome' = IF r.ret = "False" THEN outcome ELSE r.ret

\* A call of make_move on the Game object alone.
Returns(r) == Answered(r) /\ UNCHANGED <<ui, demo>>

\* make_move with no piece at start: end is not read.
NoPieceAtStart(start) ==
  /\ PieceAt(start) = None
  /\ Returns(make_move(Game, start, start))

\* make_move with a piece of the side that is not to move: end is not read.
WrongSideToMove(start) ==
  /\ PieceAt(start) # None
  /\ Color[PieceAt(start)] # current_turn
  /\ Returns(make_move(Game, start, start))

\* The call returned False.
ReturnsFalse(r) == r.ret = "False" /\ Returns(r)

\* The call returned "continue", "checkmate" or "stalemate".
ReturnsStatus(r) == r.ret # "False" /\ Returns(r)

\* make_move with a piece of the side to move, rejected.
MoveRejected(start, end) ==
  /\ PieceAt(start) # None
  /\ Color[PieceAt(start)] = current_turn
  /\ ReturnsFalse(make_move(Game, start, end))

\* make_move with a piece of the side to move, accepted.
MoveAccepted(start, end) ==
  /\ PieceAt(start) # None
  /\ Color[PieceAt(start)] = current_turn
  /\ Explored(Append(move_history, <<start, end>>))
  /\ ReturnsStatus(make_move(Game, start, end))

Next ==
  \E start \in Squares :
    \/ NoPieceAtStart(start)
    \/ WrongSideToMove(start)
    \/ \E end \in Squares : MoveRejected(start, end)
    \/ \E end \in Squares : MoveAccepted(start, end)

Spec == Init /\ [][Next]_vars

(***************************************************************************)
(* The same Game object, make_move being called with any pair of integers  *)
(* near the grid as the destination, as a caller other than the UI may:    *)
(* the UI and the AI pass squares of the grid only.                        *)
(***************************************************************************)
Coordinates == (0 - Margin)..(7 + Margin)

Destinations == Coordinates \X Coordinates

\* make_move raises IndexError: nothing has been written, no value is
\* returned.
MoveRaises(start, end) ==
  /\ make_move_raises(Game, start, end)
  /\ result' = "IndexError"
  /\ UNCHANGED <<board, position, has_moved, current_turn, move_history, outcome>>
  /\ UNCHANGED <<ui, demo>>

NextAnyDestination ==
  \E start \in Squares :
    \/ NoPieceAtStart(start)
    \/ WrongSideToMove(start)
    \/ \E end \in Destinations : MoveRaises(start, end)
    \/ \E end \in Destinations :
         ~make_move_raises(Game, start, end) /\ MoveRejected(start, end)
    \/ \E end \in Destinations :
         ~make_move_raises(Game, start, end) /\ MoveAccepted(start, end)

SpecAnyDestination == Init /\ [][NextAnyDestination]_vars

(***************************************************************************)
(* The same Game, which may at any time be saved and replaced by the Game  *)
(* loaded from the file.                                                   *)
(***************************************************************************)
SaveAndLoad ==
  /\ Becomes(load_game(save_game(Game)))
  /\ UNCHANGED <<result, outcome, ui, demo>>

NextSaveLoad == Next \/ SaveAndLoad

SpecSaveLoad == Init /\ [][NextSaveLoad]_vars

(***************************************************************************)
(* The properties.                                                         *)
(***************************************************************************)
\* The Board of the Game object.
CB == Game.B

\* The pieces on the grid.
OnBoard(B) == {B.board[r][c] : r \in Range8, c \in Range8} \ {None}

\* A king's move of two columns, the shape of a castling move.
TwoColumnKingMove(B, piece, dest) ==
  Kind[piece] = "King" /\ Abs(dest[2] - B.position[piece][2]) = 2

Relocated(B, piece, dest) ==
  LET from == B.position[piece]
      castles == TwoColumnKingMove(B, piece, dest)
      rookFrom == <<from[1], IF dest[2] > from[2] THEN 7 ELSE 0>>
      rookTo == <<from[1], IF dest[2] > from[2] THEN dest[2] - 1 ELSE dest[2] + 1>>
      rook == B.board[rookFrom[1]][rookFrom[2]]
  IN [board |-> [r \in Range8 |-> [c \in Range8 |->
                   CASE <<r, c>> = dest -> piece
                     [] <<r, c>> = from -> None
                     [] castles /\ <<r, c>> = rookFrom -> None
                     [] castles /\ <<r, c>> = rookTo -> rook
                     [] OTHER -> B.board[r][c]]],
      position |-> [p \in Pieces |->
                   CASE p = piece -> dest
                     [] castles /\ p = rook -> rookTo
                     [] OTHER -> B.position[p]],
      has_moved |-> B.has_moved]

\* C2. Board.is_valid_move returns true exactly when the move is
\* geometrically valid for the piece and, in the position obtained by
\* relocating it (with the rook for a two-column king move), the king of
\* the piece's color is not attacked.
C2_ValidIffGeometryAndKingSafe ==
  \A s \in Squares : PieceAt(s) # None =>
    \A d \in Squares :
      Board_is_valid_move(CB, PieceAt(s), d).ret
        = (/\ Piece_is_valid_move(CB, PieceAt(s), d)
           /\ ~is_king_in_check(Relocated(CB, PieceAt(s), d), Color[PieceAt(s)]))

\* A state with a geometrically valid move that is refused because it leaves
\* the king attacked, after an accepted two-column king move.
C2_Witness ==
  /\ \E p \in OnBoard(CB) : Kind[p] = "King" /\ CB.has_moved[p] /\ CB.position[p][2] = 6
  /\ \E s \in Squares, d \in Squares :
        /\ PieceAt(s) # None
        /\ Piece_is_valid_move(CB, PieceAt(s), d)
        /\ is_king_in_check(Relocated(CB, PieceAt(s), d), Color[PieceAt(s)])

\* C3. No self-check: after any move make_move accepts, the king of the
\* color that moved is not attacked.
C3_NoSelfCheck ==
  \A s \in Squares, e \in Squares :
    LET r == make_move(Game, s, e)
    IN r.ret # "False" => ~is_king_in_check(r.G.B, current_turn)

\* A state reached by an accepted move, where the side that moved has a
\* piece whose geometrically valid move would expose its own king.
C3_Witness ==
  /\ result = "continue"
  /\ ~is_king_in_check(CB, switch_turn(current_turn))
  /\ \E p \in OnBoard(CB), d \in Squares :
        /\ Color[p] # current_turn
        /\ Piece_is_valid_move(CB, p, d)
        /\ ~Board_is_valid_move(CB, p, d).ret

\* C4. make_move is rejected and changes nothing (grid, positions, flags,
\* side to move, history) when there is no piece at start, the piece is not
\* of the side to move, or Board.is_valid_move is false.
C4_RejectedUnchanged ==
  \A s \in Squares, e \in Squares :
    (\/ PieceAt(s) = None
     \/ Color[PieceAt(s)] # current_turn
     \/ ~Board_is_valid_move(CB, PieceAt(s), e).ret)
    => make_move(Game, s, e) = [ret |-> "False", G |-> Game]

\* A state left by a rejected call, in which each of the three causes can
\* occur, the third for a move whose simulation finds the king attacked.
C4_Witness ==
  /\ result = "False"
  /\ \E s \in Squares : PieceAt(s) = None
  /\ \E s \in Squares : PieceAt(s) # None /\ Color[PieceAt(s)] # current_turn
  /\ \E s \in Squares, e \in Squares :
        /\ PieceAt(s) # None
        /\ Color[PieceAt(s)] = current_turn
        /\ Piece_is_valid_move(CB, PieceAt(s), e)
        /\ ~Board_is_valid_move(CB, PieceAt(s), e).ret

\* The cells a move from s to e may change: s, e and, for a two-column king
\* move, the corner of the rook and the square beside the king.
MoveCells(B, s, e) ==
  {s, e} \cup
  (IF TwoColumnKingMove(B, B.board[s[1]][s[2]], e)
   THEN {<<s[1], IF e[2] > s[2] THEN 7 ELSE 0>>,
         <<s[1], IF e[2] > s[2] THEN e[2] - 1 ELSE e[2] + 1>>}
   ELSE {})

\* C5. When make_move(start, end) is accepted, cell start is empty, cell end
\* holds the piece that was at start, the previous occupant of end is on no
\* cell, the history is the old one with <<start, end>> appended, the side
\* to move is flipped, and every cell outside MoveCells is unchanged.
C5_AcceptedEffect ==
  \A s \in Squares, e \in Squares :
    LET r == make_move(Game, s, e)
        after == r.G.B.board
    IN r.ret # "False" =>
         /\ after[s[1]][s[2]] = None
         /\ after[e[1]][e[2]] = PieceAt(s)
         /\ PieceAt(e) # None => PieceAt(e) \notin OnBoard(r.G.B)
         /\ r.G.move_history = Append(move_history, <<s, e>>)
         /\ r.G.current_turn # current_turn
         /\ r.G.current_turn \in {"white", "black"}
         /\ \A c \in Squares \ MoveCells(CB, s, e) : after[c[1]][c[2]] = board[c[1]][c[2]]

\* A state reached by an accepted capture, from which a castling move and a
\* capture are both accepted.
C5_Witness ==
  /\ result = "continue"
  /\ move_history # <<>>
  /\ Cardinality(OnBoard(CB)) < 32
  /\ \E s \in Squares, e \in Squares :
        /\ PieceAt(s) # None
        /\ TwoColumnKingMove(CB, PieceAt(s), e)
        /\ make_move(Game, s, e).ret # "False"
  /\ \E s \in Squares, e \in Squares :
        PieceAt(e) # None /\ make_move(Game, s, e).ret # "False"

\* The squares strictly between two squares of one row, column or diagonal.
Between(a, b) ==
  {<<a[1] + k * Step(a[1], b[1]), a[2] + k * Step(a[2], b[2])>> :
     k \in 1..(Max(Abs(b[1] - a[1]), Abs(b[2] - a[2])) - 1)}

\* The rules of chess, read off the grid alone: the piece standing on cell
\* from attacks square sq.
Covers(B, from, sq) ==
  LET p == B.board[from[1]][from[2]]
      dr == sq[1] - from[1]
      dc == sq[2] - from[2]
      straight == (dr = 0) # (dc = 0)
      diagonal == Abs(dr) = Abs(dc) /\ dr # 0
      open == \A c \in Between(from, sq) : B.board[c[1]][c[2]] = None
  IN CASE Kind[p] = "Pawn" -> dr = (IF Color[p] = "white" THEN 1 ELSE -1) /\ Abs(dc) = 1
       [] Kind[p] = "Knight" -> {Abs(dr), Abs(dc)} = {1, 2}
       [] Kind[p] = "King" -> Max(Abs(dr), Abs(dc)) = 1
       [] Kind[p] = "Rook" -> straight /\ open
       [] Kind[p] = "Bishop" -> diagonal /\ open
       [] Kind[p] = "Queen" -> (straight \/ diagonal) /\ open

\* Square sq is attacked by a piece of the side opposing color.
Attacked(B, sq, color) ==
  \E from \in Squares :
    /\ B.board[from[1]][from[2]] # None
    /\ Color[B.board[from[1]][from[2]]] # color
    /\ Covers(B, from, sq)

\* The king of the color stands on an attacked square.
KingAttacked(B, color) ==
  \E k \in Squares :
    /\ B.board[k[1]][k[2]] # None
    /\ Kind[B.board[k[1]][k[2]]] = "King"
    /\ Color[B.board[k[1]][k[2]]] = color
    /\ Attacked(B, k, color)

\* The side of the color has a legal move: Board.is_valid_move is true for
\* one of its pieces and one of the 64 squares.
HasLegalMove(B, color) ==
  \E p \in OnBoard(B), d \in Squares :
    Color[p] = color /\ Board_is_valid_move(B, p, d).ret

\* C6. Terminal detection: the value the last accepted move returned is
\* "checkmate" exactly when the side now to move has its king attacked and
\* no legal move, "stalemate" exactly when its king is not attacked and it
\* has no legal move, and "continue" otherwise.
C6_TerminalDetection ==
  outcome # "none" =>
    /\ outcome \in {"checkmate", "stalemate", "continue"}
    /\ (outcome = "checkmate")
         = (KingAttacked(CB, current_turn) /\ ~HasLegalMove(CB, current_turn))
    /\ (outcome = "stalemate")
         = (~KingAttacked(CB, current_turn) /\ ~HasLegalMove(CB, current_turn))
    /\ (outcome = "continue") = HasLegalMove(CB, current_turn)

\* The state make_move leaves when it returns "stalemate": the side to move
\* has pieces, none of which can move, and its king is not attacked.
C6_Witness ==
  /\ result = "stalemate"
  /\ ~KingAttacked(CB, current_turn)
  /\ Cardinality({p \in OnBoard(CB) : Color[p] = current_turn}) > 1

\* C7. Checkmate and stalemate are terminal: once make_move has returned
\* "checkmate" or "stalemate", every call of make_move, whatever start and
\* end, returns False and leaves the grid, the positions, the flags, the
\* side to move and the history unchanged.
C7_TerminalStatesAbsorb ==
  outcome \in {"checkmate", "stalemate"} =>
    \A s \in Squares, e \in Squares :
      make_move(Game, s, e) = [ret |-> "False", G |-> Game]

\* A state after checkmate in which a later call has been made and rejected.
C7_Witness ==
  outcome = "checkmate" /\ result = "False" /\ KingAttacked(CB, current_turn)

\* The rook's corner of a king's move from s to e, and the square the king
\* passes over.
Corner(s, e) == <<s[1], IF e[2] > s[2] THEN 7 ELSE 0>>

Passed(s, e) == <<s[1], (s[2] + e[2]) \div 2>>

\* make_move accepts the move of a king from s to a square e two columns
\* away.
CastlingAccepted(s, e) ==
  /\ PieceAt(s) # None
  /\ TwoColumnKingMove(CB, PieceAt(s), e)
  /\ make_move(Game, s, e).ret # "False"

\* C8. Castling atomicity: after an accepted king move of two columns, the
\* king stands on its home row two columns from its origin, the rook of the
\* corner stands on the square the king passed over (column 5 kingside,
\* column 3 queenside), the corner is empty, and the has_moved flags of the
\* king and of that rook are true.
C8_CastlingAtomic ==
  \A s \in Squares, e \in Squares :
    CastlingAccepted(s, e) =>
      LET after == make_move(Game, s, e).G.B
          king == PieceAt(s)
          rook == board[Corner(s, e)[1]][Corner(s, e)[2]]
      IN /\ s[1] = e[1] /\ s[1] = (IF Color[king] = "white" THEN 0 ELSE 7)
         /\ s[2] = 4 /\ Abs(e[2] - s[2]) = 2
         /\ after.board[e[1]][e[2]] = king /\ after.position[king] = e
         /\ rook # None /\ Kind[rook] = "Rook" /\ Color[rook] = Color[king]
         /\ Passed(s, e)[2] = (IF e[2] > s[2] THEN 5 ELSE 3)
         /\ after.board[Passed(s, e)[1]][Passed(s, e)[2]] = rook
         /\ after.position[rook] = Passed(s, e)
         /\ after.board[Corner(s, e)[1]][Corner(s, e)[2]] = None
         /\ after.board[s[1]][s[2]] = None
         /\ after.has_moved[king] /\ after.has_moved[rook]

\* The state left by black's accepted queenside castling.
C8_Witness ==
  /\ result = "continue"
  /\ move_history # <<>>
  /\ move_history[Len(move_history)] = <<<<7, 4>>, <<7, 2>>>>
  /\ board[7][2] # None /\ Kind[board[7][2]] = "King"
  /\ board[7][3] # None /\ Kind[board[7][3]] = "Rook"

\* C9. A king's move of two columns is accepted only if all the squares
\* strictly between the king and the rook of the corner are empty: columns
\* 5 and 6 kingside, columns 1, 2 and 3 queenside; the destination of the
\* king holds no piece.
C9_CastlingSquaresEmpty ==
  \A s \in Squares, e \in Squares :
    CastlingAccepted(s, e) =>
      \A c \in Between(s, Corner(s, e)) : board[c[1]][c[2]] = None

\* C10. A king's move of two columns is accepted only if, in the position
\* before the move, no opposing piece attacks the king's square, the square
\* it passes over or its destination.
C10_NoCastlingThroughCheck ==
  \A s \in Squares, e \in Squares :
    CastlingAccepted(s, e) =>
      \A sq \in {s, Passed(s, e), e} : ~Attacked(CB, sq, Color[PieceAt(s)])

\* A state where castling is refused for the attack alone: the king and the
\* rook of the corner have not moved, the squares between them are empty,
\* the king's square is not attacked but the square it would pass over is.
C10_Witness ==
  \E s \in Squares, e \in Squares :
    /\ PieceAt(s) # None
    /\ TwoColumnKingMove(CB, PieceAt(s), e)
    /\ s[1] = e[1]
    /\ ~has_moved[PieceAt(s)]
    /\ ~NotCastlingRook(CB, board[Corner(s, e)[1]][Corner(s, e)[2]])
    /\ \A c \in Between(s, Corner(s, e)) : board[c[1]][c[2]] = None
    /\ ~Attacked(CB, s, Color[PieceAt(s)])
    /\ Attacked(CB, Passed(s, e), Color[PieceAt(s)])
    /\ make_move(Game, s, e).ret = "False"

\* Once true, a has_moved flag stays true, and the king or rook moved by an
\* accepted move (a step that appends a move to the history) has its flag
\* true afterwards.
FlagsOnlyRise ==
  /\ \A p \in Pieces : has_moved[p] => has_moved'[p]
  /\ move_history' # move_history =>
       LET start == move_history'[Len(move_history')][1]
       IN HasAttrHasMoved(PieceAt(start)) => has_moved'[PieceAt(start)]

\* No accepted castling involves a king or a corner rook whose flag is true.
NoCastlingWithMovedPiece ==
  \A s \in Squares, e \in Squares :
    CastlingAccepted(s, e) =>
      /\ ~has_moved[PieceAt(s)]
      /\ board[Corner(s, e)[1]][Corner(s, e)[2]] # None
      /\ ~has_moved[board[Corner(s, e)[1]][Corner(s, e)[2]]]

C12_PieceGridConsistent ==
  /\ \A sq \in Squares : PieceAt(sq) # None => position[PieceAt(sq)] = sq
  /\ \A a \in Squares, b \in Squares :
       (PieceAt(a) # None /\ PieceAt(a) = PieceAt(b)) => a = b

\* A state left by a rejected call, after a castling and a capture were
\* accepted.
C12_Witness ==
  /\ result = "False"
  /\ Cardinality(OnBoard(CB)) < 32
  /\ \E p \in OnBoard(CB) : Kind[p] = "King" /\ has_moved[p] /\ position[p][2] \in {2, 6}

\* C13. Off-board destinations are rejected: for every piece on the grid and
\* every destination with a row or a column outside 0..7, Board.is_valid_move
\* and Game.make_move raise no exception, return a rejection and leave the
\* board as it was.
C13_OffBoardRejected ==
  \A s \in Squares : PieceAt(s) # None =>
    \A d \in Destinations \ Squares :
      /\ ~is_valid_move_raises(CB, PieceAt(s), d)
      /\ Board_is_valid_move(CB, PieceAt(s), d) = [ret |-> FALSE, B |-> CB]
      /\ make_move(Game, s, d) = [ret |-> "False", G |-> Game]

\* Why make_move(s, e) is rejected, or "none" when it is accepted.
Cause(s, e) ==
  IF PieceAt(s) = None THEN "no piece at origin"
  ELSE IF Color[PieceAt(s)] # current_turn THEN "wrong side to move"
  ELSE IF make_move(Game, s, e).ret = "False" THEN "illegal move"
  ELSE "none"

\* C14. make_move reports the cause of a rejection in the value it returns:
\* two calls rejected for different causes (no piece at the origin, wrong
\* side to move, illegal move) return different values.
C14_RejectionCauseReturned ==
  \A e \in Squares, s1 \in Squares, s2 \in Squares :
    (Cause(s1, e) # "none" /\ Cause(s2, e) # "none" /\ Cause(s1, e) # Cause(s2, e))
      => make_move(Game, s1, e).ret # make_move(Game, s2, e).ret

\* C15. Piece geometry does not consult the attack oracle: for every piece
\* on the grid and every destination, piece.is_valid_move is what it would
\* be were the oracle not asked, so the same whether or not the destination
\* of a king's one-square move is attacked. Only the king's geometry asks.
C15_GeometryAsksNoOracle ==
  \A p \in OnBoard(CB), d \in Squares :
    Kind[p] = "King" =>
      Piece_is_valid_move(CB, p, d) = King_is_valid_move_on(CB, p, d, FALSE)

\* The square is empty.
Empty(B, sq) == B.board[sq[1]][sq[2]] = None

\* The square holds a piece of the color.
Holds(B, sq, color) == ~Empty(B, sq) /\ Color[B.board[sq[1]][sq[2]]] = color

\* The other color.
Opponent(color) == IF color = "white" THEN "black" ELSE "white"

\* The pawn rule, read off the grid alone, for the pawn on cell from: forward
\* is +1 row for white and -1 row for black.
PawnRule(B, from, d) ==
  LET color == Color[B.board[from[1]][from[2]]]
      forward == IF color = "white" THEN 1 ELSE -1
      home == IF color = "white" THEN 1 ELSE 6
  IN \/ d = <<from[1] + forward, from[2]>> /\ Empty(B, d)
     \/ /\ d = <<from[1] + 2 * forward, from[2]>> /\ from[1] = home
        /\ Empty(B, <<from[1] + forward, from[2]>>) /\ Empty(B, d)
     \/ /\ d[1] = from[1] + forward /\ Abs(d[2] - from[2]) = 1
        /\ Holds(B, d, Opponent(color))

\* C16. Pawn geometry: Pawn.is_valid_move is true exactly for one row forward
\* in the same column onto an empty square, two rows forward in the same
\* column from the starting row with the intermediate and the destination
\* square empty, and one row forward and one column sideways onto a square
\* holding an opposing piece; never a diagonal step onto an empty square.
C16_PawnGeometry ==
  \A from \in Squares, d \in Squares :
    (~Empty(CB, from) /\ Kind[PieceAt(from)] = "Pawn") =>
      /\ Pawn_is_valid_move(CB, PieceAt(from), d) = PawnRule(CB, from, d)
      /\ (Abs(d[2] - from[2]) = 1 /\ Empty(CB, d))
           => ~Pawn_is_valid_move(CB, PieceAt(from), d)

\* A state where a pawn can capture, a pawn on its starting row can go two
\* rows forward, a pawn is stopped by the piece in front of it, and a pawn
\* has an empty square diagonally ahead.
C16_Witness ==
  /\ \E from \in Squares, d \in Squares :
        /\ ~Empty(CB, from) /\ Kind[PieceAt(from)] = "Pawn"
        /\ d[2] # from[2] /\ Pawn_is_valid_move(CB, PieceAt(from), d)
  /\ \E from \in Squares, d \in Squares :
        /\ ~Empty(CB, from) /\ Kind[PieceAt(from)] = "Pawn"
        /\ Abs(d[1] - from[1]) = 2 /\ Pawn_is_valid_move(CB, PieceAt(from), d)
  /\ \E from \in Squares, d \in Squares :
        /\ ~Empty(CB, from) /\ Kind[PieceAt(from)] = "Pawn" /\ Color[PieceAt(from)] = "white"
        /\ d = <<from[1] + 1, from[2]>> /\ ~Empty(CB, d)
        /\ ~Pawn_is_valid_move(CB, PieceAt(from), d)
  /\ \E from \in Squares, d \in Squares :
        /\ ~Empty(CB, from) /\ Kind[PieceAt(from)] = "Pawn" /\ Color[PieceAt(from)] = "white"
        /\ d[1] = from[1] + 1 /\ Abs(d[2] - from[2]) = 1 /\ Empty(CB, d)

\* The rule of the sliding pieces, read off the grid alone, for the piece on
\* cell from.
SliderRule(B, from, d) ==
  LET p == B.board[from[1]][from[2]]
      straight == d[1] = from[1] \/ d[2] = from[2]
      diagonal == Abs(d[1] - from[1]) = Abs(d[2] - from[2])
  IN /\ CASE Kind[p] = "Rook" -> straight
           [] Kind[p] = "Bishop" -> diagonal
           [] Kind[p] = "Queen" -> straight \/ diagonal
     /\ \A c \in Between(from, d) : Empty(B, c)
     /\ ~Holds(B, d, Color[p])

\* C17. Sliding-piece geometry: the is_valid_move of a Rook, Bishop or Queen
\* is true exactly when the destination is on a permitted line (same row or
\* column, equal absolute row and column delta, either), every square
\* strictly between is empty, and the destination holds no piece of the
\* same color.
C17_SliderGeometry ==
  \A from \in Squares, d \in Squares :
    (~Empty(CB, from) /\ Kind[PieceAt(from)] \in {"Rook", "Bishop", "Queen"}) =>
      Piece_is_valid_move(CB, PieceAt(from), d) = SliderRule(CB, from, d)

\* A state where a sliding piece can capture an opposing piece and cannot
\* reach the square behind it on the same line.
C17_Witness ==
  \E from \in Squares, d \in Squares, behind \in Squares :
    /\ ~Empty(CB, from) /\ Kind[PieceAt(from)] \in {"Rook", "Bishop", "Queen"}
    /\ Holds(CB, d, Opponent(Color[PieceAt(from)]))
    /\ Piece_is_valid_move(CB, PieceAt(from), d)
    /\ d \in Between(from, behind)
    /\ Between(from, behind) \ {d} = Between(from, d)
    /\ Empty(CB, behind)
    /\ ~Piece_is_valid_move(CB, PieceAt(from), behind)

\* C18. Attack oracle: Board.is_square_under_attack(square, color) is true
\* exactly when a piece of the other color, on another square, covers the
\* square by its capture pattern (a pawn its two forward diagonals, a knight
\* its L-offsets, a king its neighbours, a rook, bishop or queen its lines
\* with every square strictly between empty), for either color whoever is to
\* move.
C18_AttackOracle ==
  \A sq \in Squares, color \in {"white", "black"} :
    is_square_under_attack(CB, sq, color) = Attacked(CB, sq, color)

\* A state where the king of the side to move is attacked, the square
\* straight ahead of a pawn is not covered by that pawn or any other piece,
\* and a sliding piece is in line with a square it does not cover.
C18_Witness ==
  /\ is_king_in_check(CB, current_turn)
  /\ \E from \in Squares :
        /\ Holds(CB, from, "white") /\ Kind[PieceAt(from)] = "Pawn"
        /\ ~is_square_under_attack(CB, <<from[1] + 1, from[2]>>, "black")
  /\ \E from \in Squares, sq \in Squares :
        /\ ~Empty(CB, from) /\ Kind[PieceAt(from)] = "Rook"
        /\ sq[1] = from[1] /\ sq # from
        /\ ~is_square_under_attack(CB, sq, Opponent(Color[PieceAt(from)]))

\* The position mirrored left to right: column c becomes 7 - c.
MirrorColumns(B) ==
  [board |-> [r \in Range8 |-> [c \in Range8 |-> B.board[r][7 - c]]],
   position |-> [p \in Pieces |-> <<B.position[p][1], 7 - B.position[p][2]>>],
   has_moved |-> B.has_moved]

\* The piece of the same class and the other color: the pawn or the piece of
\* the same column of the other side.
Counterpart(p) ==
  IF p = None THEN None
  ELSE IF p <= 8 \/ p \in 17..24 THEN p + 8 ELSE p - 8

\* The position mirrored top to bottom, row r becoming 7 - r, with the colors
\* swapped: every piece is replaced by its counterpart.
MirrorRows(B) ==
  [board |-> [r \in Range8 |-> [c \in Range8 |-> Counterpart(B.board[7 - r][c])]],
   position |-> [p \in Pieces |->
                  <<7 - B.position[Counterpart(p)][1], B.position[Counterpart(p)][2]>>],
   has_moved |-> [p \in Pieces |-> B.has_moved[Counterpart(p)]]]

\* C19. Symmetry of attack: Board.is_square_under_attack gives the same
\* answer when the position and the square are mirrored left to right, and
\* when they are mirrored top to bottom with every color, the queried one
\* included, swapped.
C19_AttackSymmetry ==
  \A sq \in Squares, color \in {"white", "black"} :
    /\ is_square_under_attack(CB, sq, color)
         = is_square_under_attack(MirrorColumns(CB), <<sq[1], 7 - sq[2]>>, color)
    /\ is_square_under_attack(CB, sq, color)
         = is_square_under_attack(MirrorRows(CB), <<7 - sq[1], sq[2]>>, Opponent(color))

\* A state that is not its own mirror image either way, with the king of the
\* side to move attacked by a piece on another column and another row.
C19_Witness ==
  /\ MirrorColumns(CB) # CB
  /\ MirrorRows(CB) # CB
  /\ \E k \in Squares, from \in Squares :
        /\ Holds(CB, k, current_turn) /\ Kind[PieceAt(k)] = "King"
        /\ Holds(CB, from, Opponent(current_turn))
        /\ from[1] # k[1] /\ from[2] # k[2]
        /\ Covers(CB, from, k)
        /\ is_square_under_attack(CB, k, current_turn)

\* What a Game holds, whatever the identities of its objects: the class, the
\* color, the position and, for a king or a rook, the flag of the piece of
\* every cell, the side to move and the history.
Contents(G) ==
  [grid |-> [sq \in Squares |->
       LET p == G.B.board[sq[1]][sq[2]]
       IN IF p = None THEN <<"None">>
          ELSE <<Kind[p], Color[p], G.B.position[p],
                 HasAttrHasMoved(p) /\ G.B.has_moved[p]>>],
   current_turn |-> G.current_turn,
   move_history |-> G.move_history]

KingSquares(B, color) ==
  {sq \in Squares : Holds(B, sq, color) /\ Kind[B.board[sq[1]][sq[2]]] = "King"}

\* C21. In every state there is exactly one king of each color on the grid:
\* no accepted move captures a king or leaves a side without its king, and
\* the scans for the king of Board.is_king_in_check and of the simulation
\* in Board.is_valid_move always find one.
C21_OneKingEach ==
  /\ \A color \in {"white", "black"} :
       /\ Cardinality(KingSquares(CB, color)) = 1
       /\ FindKing(CB, color) # <<>>
  /\ \A s \in Squares, d \in Squares :
       (~Empty(CB, s) /\ Piece_is_valid_move(CB, PieceAt(s), d)) =>
         FindKing(SimulateMove(CB, PieceAt(s), s[1], s[2], d[1], d[2]),
                  Color[PieceAt(s)]) # <<>>
  /\ \A s \in Squares, e \in Squares :
       make_move(Game, s, e).ret # "False" =>
         /\ Empty(CB, e) \/ Kind[PieceAt(e)] # "King"
         /\ \A color \in {"white", "black"} :
              Cardinality(KingSquares(make_move(Game, s, e).G.B, color)) = 1

\* A state where the king of the side to move is attacked and that side has
\* captures among the moves make_move accepts.
C21_Witness ==
  /\ KingAttacked(CB, current_turn)
  /\ outcome = "continue"
  /\ \E s \in Squares, e \in Squares :
        ~Empty(CB, e) /\ make_move(Game, s, e).ret # "False"

\* The last row of a pawn of the color.
FarRank(color) == IF color = "white" THEN 7 ELSE 0

\* The squares that hold a pawn on the last row of its color.
PawnsOnFarRank(B) ==
  {sq \in Squares : /\ ~Empty(B, sq)
                    /\ Kind[B.board[sq[1]][sq[2]]] = "Pawn"
                    /\ sq[1] = FarRank(Color[B.board[sq[1]][sq[2]]])}

\* C22. There is no promotion: after an accepted move the destination holds
\* the very piece object that stood on the start square, of the kind it had,
\* and a pawn on the last row of its color is still a pawn there unless it
\* is captured, and has no
\* legal move to any of the 64 squares: its geometry, Board.is_valid_move
\* and Game.make_move refuse every destination.
C22_NoPromotion ==
  /\ \A s \in Squares, e \in Squares :
       make_move(Game, s, e).ret # "False" =>
         LET after == make_move(Game, s, e).G.B
         IN /\ after.board[e[1]][e[2]] = PieceAt(s)
            /\ Kind[after.board[e[1]][e[2]]] = Kind[PieceAt(s)]
            /\ PawnsOnFarRank(CB) \ {e} \subseteq PawnsOnFarRank(after)
  /\ \A sq \in PawnsOnFarRank(CB), d \in Squares :
       /\ ~Piece_is_valid_move(CB, PieceAt(sq), d)
       /\ ~Board_is_valid_move(CB, PieceAt(sq), d).ret
       /\ make_move(Game, sq, d).ret = "False"

\* A pawn of the side to move stands on its last row.
C22_Witness ==
  \E sq \in PawnsOnFarRank(CB) :
    Color[PieceAt(sq)] = current_turn /\ outcome = "continue"

\* The occupied cells of the grid.
Occupied(B) == {sq \in Squares : ~Empty(B, sq)}

\* C23. No accepted move lands on a piece of the mover: a call whose
\* destination is the start square or holds a piece of the color of the piece
\* on the start square is rejected. An accepted move removes from the grid
\* at most one piece, the one that stood on the destination, of the opposing
\* color, and the number of pieces never increases.
C23_NoOwnCapture ==
  \A s \in Squares, e \in Squares :
    LET r == make_move(Game, s, e)
    IN /\ (~Empty(CB, s) /\ (e = s \/ Holds(CB, e, Color[PieceAt(s)]))) =>
            r.ret = "False"
       /\ r.ret # "False" =>
            /\ OnBoard(r.G.B) \subseteq OnBoard(CB)
            /\ OnBoard(CB) \ OnBoard(r.G.B) \subseteq {PieceAt(e)}
            /\ ~Empty(CB, e) =>
                  /\ Color[PieceAt(e)] = Opponent(current_turn)
                  /\ OnBoard(CB) \ OnBoard(r.G.B) = {PieceAt(e)}
            /\ Cardinality(Occupied(r.G.B)) <= Cardinality(Occupied(CB))
            /\ Cardinality(Occupied(r.G.B)) >= Cardinality(Occupied(CB)) - 1

\* A state after a capture where the side to move has an accepted capture and
\* a piece whose geometry, its own pieces aside, reaches a square one of its
\* own pieces stands on.
C23_Witness ==
  /\ Cardinality(Occupied(CB)) < 32
  /\ \E s \in Squares, e \in Squares :
        ~Empty(CB, e) /\ make_move(Game, s, e).ret # "False"
  /\ \E s \in Squares, e \in Squares :
        /\ Holds(CB, s, current_turn) /\ Holds(CB, e, current_turn)
        /\ Kind[PieceAt(s)] = "Knight"
        /\ <<Abs(s[1] - e[1]), Abs(s[2] - e[2])>> \in {<<1, 2>>, <<2, 1>>}
        /\ make_move(Game, s, e).ret = "False"

\* The piece on s is a rook, a bishop or a queen of the side to move.
SliderToMove(s) ==
  Holds(CB, s, current_turn) /\ Kind[PieceAt(s)] \in {"Rook", "Bishop", "Queen"}

\* C24. make_move accepts a call exactly when the start square holds a piece,
\* the piece is of the side to move, and Board.is_valid_move is true for it
\* and the destination. The two later rejections are never taken: whenever
\* Board.is_valid_move is true for a rook, bishop or queen, is_path_blocked
\* is false, and move_piece returns True.
C24_AcceptedIffValid ==
  \A s \in Squares, e \in Squares :
    LET valid == /\ Holds(CB, s, current_turn)
                 /\ Board_is_valid_move(CB, PieceAt(s), e).ret
    IN /\ make_move(Game, s, e).ret # "False" <=> valid
       /\ valid => /\ SliderToMove(s) => ~is_path_blocked(CB, s, e)
                    /\ move_piece(CB, s, e).ret

\* A state where a rook, bishop or queen of the side to move has an accepted
\* move of two squares or more onto a piece, and another such move along a
\* line is rejected because a piece stands in between.
C24_Witness ==
  /\ \E s \in Squares, e \in Squares :
        /\ SliderToMove(s) /\ ~Empty(CB, e)
        /\ Max(Abs(e[1] - s[1]), Abs(e[2] - s[2])) >= 2
        /\ make_move(Game, s, e).ret # "False"
  /\ \E s \in Squares, e \in Squares :
        /\ SliderToMove(s) /\ ~Holds(CB, e, current_turn)
        /\ is_path_blocked(CB, s, e)
        /\ make_move(Game, s, e).ret = "False"

\* The kings and rooks on the grid whose has_moved flag is false.
Unmoved(B) == {p \in OnBoard(B) : HasAttrHasMoved(p) /\ ~B.has_moved[p]}

\* The unmoved rooks in the corners of the row of king k.
CornerRooks(B, k) ==
  {B.board[B.position[k][1]][col] : col \in {0, 7}} \cap
  {p \in Unmoved(B) : Kind[p] = "Rook"}

\* C25. Every king or rook on the grid whose has_moved flag is false stands
\* on its own initial square; hence an unmoved rook in a corner of the row of
\* an unmoved king, the rook castling looks for, is of the king's color.
C25_UnmovedAtHome ==
  /\ \A p \in Unmoved(CB) :
       /\ position[p] = InitialPosition[p]
       /\ board[InitialPosition[p][1]][InitialPosition[p][2]] = p
  /\ \A k \in Unmoved(CB) :
       Kind[k] = "King" => \A rook \in CornerRooks(CB, k) : Color[rook] = Color[k]
  /\ \A s \in Squares, e \in Squares :
       CastlingAccepted(s, e) =>
         LET rook == board[s[1]][IF e[2] > s[2] THEN 7 ELSE 0]
         IN rook \in Unmoved(CB) /\ Kind[rook] = "Rook" /\ Color[rook] = Color[PieceAt(s)]

\* A state where a rook that has moved is back on its initial square, and a
\* king that has not moved has an unmoved rook in a corner of its row.
C25_Witness ==
  /\ \E p \in OnBoard(CB) :
        Kind[p] = "Rook" /\ has_moved[p] /\ position[p] = InitialPosition[p]
  /\ \E k \in Unmoved(CB) : Kind[k] = "King" /\ CornerRooks(CB, k) # {}

(***************************************************************************)
(* ai_opponent.py: AIPlayer. The enumeration calls Board.is_valid_move for *)
(* every piece of the color and every square, each call on the Board the   *)
(* one before left, and collects the moves found valid in a list.          *)
(***************************************************************************)
\* "if game.board.is_valid_move(piece, ...): valid_moves.append(...)", v
\* being what is_valid_move returned and left.
Listed(v, start, end) ==
  [moves |-> IF v.ret THEN <<<<start, end>>>> ELSE <<>>, B |-> v.B]

\* The list so far followed by what the rest of the loop lists and leaves.
Joined(moves, rest) == [moves |-> moves \o rest.moves, B |-> rest.B]

\* An enumeration that asks the piece alone.
valid_move_GeometryOnly(B, piece, start, end) ==
  Listed([ret |-> Piece_is_valid_move(B, piece, end), B |-> B], start, end)

\* The body of the inner loops for one destination.
valid_move(B, piece, start, end) ==
  Listed(Board_is_valid_move(B, piece, end), start, end)

\* The inner loops for one piece: the destinations lo..hi-1 in order, rows
\* then columns. The range is split in halves, which keeps the order.
RECURSIVE valid_moves_targets(_, _, _, _, _)

\* first is what the destinations before mid listed and left.
MoreTargets(first, piece, start, mid, hi) ==
  Joined(first.moves, valid_moves_targets(first.B, piece, start, mid, hi))

valid_moves_targets(B, piece, start, lo, hi) ==
  IF hi - lo = 1 THEN valid_move(B, piece, start, <<lo \div 8, lo % 8>>)
  ELSE MoreTargets(valid_moves_targets(B, piece, start, lo, (lo + hi) \div 2),
                   piece, start, (lo + hi) \div 2, hi)

\* The outer loops: the cells lo..hi-1 in order, rows then columns; "if piece
\* and piece.color == self.color".
RECURSIVE valid_moves_cells(_, _, _, _)

\* first is what the cells before mid listed and left.
MoreCells(first, color, mid, hi) ==
  Joined(first.moves, valid_moves_cells(first.B, color, mid, hi))

valid_moves_cells(B, color, lo, hi) ==
  IF hi - lo = 1
  THEN LET piece == B.board[lo \div 8][lo % 8]
       IN IF piece = None \/ Color[piece] # color
          THEN [moves |-> <<>>, B |-> B]
          ELSE valid_moves_targets(B, piece, <<lo \div 8, lo % 8>>, 0, 64)
  ELSE MoreCells(valid_moves_cells(B, color, lo, (lo + hi) \div 2),
                 color, (lo + hi) \div 2, hi)

\* AIPlayer.generate_valid_moves(game): the list, and the Board it leaves.
generate_valid_moves(G, color) == valid_moves_cells(G.B, color, 0, 64)

\* A choice that may be None whatever the list.
Choice_MayBeNone(moves) == {NoMove} \cup {moves[i] : i \in 1..Len(moves)}

\* The values random.choice(valid_moves) may return, NoMove for "return
\* None".
Choice(moves) ==
  IF moves = <<>> THEN {NoMove} ELSE {moves[i] : i \in 1..Len(moves)}

\* AIPlayer.select_move(game): the values it may return, and the Board it
\* leaves.
select_move(G, color) ==
  LET listed == valid_moves_cells(G.B, color, 0, 64)
  IN [ret |-> Choice(listed.moves), B |-> listed.B]

\* C26. For an AIPlayer of the side to move, every move select_move may
\* return and every move generate_valid_moves lists is accepted by make_move
\* on the game as it is; select_move returns None exactly when
\* Board.has_valid_moves(color) is false; and both enumerations leave the
\* Board as it was.
C26_AIMovesAccepted ==
  LET selected == select_move(Game, current_turn)
      generated == generate_valid_moves(Game, current_turn)
  IN /\ \A m \in selected.ret :
          m # NoMove => make_move(Game, m[1], m[2]).ret # "False"
     /\ \A i \in 1..Len(generated.moves) :
          make_move(Game, generated.moves[i][1], generated.moves[i][2]).ret # "False"
     /\ (NoMove \in selected.ret) <=> ~has_valid_moves(CB, current_turn).ret
     /\ (NoMove \in selected.ret) => selected.ret = {NoMove}
     /\ selected.B = CB
     /\ generated.B = CB

\* Black is to move and in check: some moves of its pieces are refused by
\* Board.is_valid_move for the check alone, and select_move has moves to
\* return.
C26_Witness ==
  /\ current_turn = "black"
  /\ KingAttacked(CB, "black")
  /\ NoMove \notin select_move(Game, "black").ret
  /\ \E s \in Squares, e \in Squares :
        /\ Holds(CB, s, "black")
        /\ Piece_is_valid_move(CB, PieceAt(s), e)
        /\ ~Board_is_valid_move(CB, PieceAt(s), e).ret

(***************************************************************************)
(* ui_manager.py: UIManager. One step is the handling of one event of the  *)
(* queue, or the AI's turn that run takes after a batch of events; a batch *)
(* may hold any number of events, so the two interleave freely. The pointer *)
(* is given by the cell under it, which may lie outside the grid.          *)
(* drag_offset and drag_pos, pixel values that only the rendering reads,   *)
(* are left out.                                                           *)
(***************************************************************************)
\* ai_player = AIPlayer('black'), in UIManager.__init__ and in main of
\* ai_opponent.py.
ai_player_White == [color |-> "white"]

ai_player == [color |-> "black"]

\* event.button: the left button and another one.
Buttons == {1, 3}

\* The cells the pointer may be over: the squares of the grid, and cells
\* beyond each of its edges.
Pointer ==
  Squares \cup {<<0 - Margin, 0>>, <<7 + Margin, 7>>, <<3, 0 - Margin>>, <<4, 7 + Margin>>}

\* The fields of the Game object.
game == <<board, position, has_moved, current_turn, move_history>>

\* "0 <= row < self.rows and 0 <= col < self.cols"
WithinBoard(cell) == cell[1] \in Range8 /\ cell[2] \in Range8

\* A test that takes stalemate for an ongoing game.
GameEnds_CheckmateOnly(ret) == ret \in {"checkmate"}

\* "if result in ["checkmate", "stalemate"]"
GameEnds(ret) == ret \in {"checkmate", "stalemate"}

\* "self.game_over = True; self.game_result = result; self.winner = ..."
\* after a call of make_move by the side by.
EndOfGame(ret, by) ==
  IF GameEnds(ret)
  THEN /\ game_over' = TRUE
       /\ game_result' = ret
       /\ winner' = IF ret = "checkmate" THEN by ELSE "None"
  ELSE UNCHANGED <<game_over, game_result, winner>>

\* A restart that keeps the Game object.
restart_game_SameGame ==
  /\ UNCHANGED game
  /\ dragging' = FALSE
  /\ selected_piece' = None
  /\ start_cell' = NoCell
  /\ game_over' = FALSE
  /\ game_result' = "None"
  /\ winner' = "None"

\* UIManager.restart_game
restart_game ==
  /\ Becomes(NewGame)
  /\ dragging' = FALSE
  /\ selected_piece' = None
  /\ start_cell' = NoCell
  /\ game_over' = FALSE
  /\ game_result' = "None"
  /\ winner' = "None"

\* The event is passed over: "continue", or no branch applies.
Ignored == UNCHANGED <<game, dragging, selected_piece, start_cell, game_over, game_result, winner>>

\* A press that picks up a white piece whoever is to move.
MayPickUp_AnyTurn(cell) ==
  /\ WithinBoard(cell)
  /\ PieceAt(cell) # None
  /\ Color[PieceAt(cell)] = "white"

\* The tests of the MOUSEBUTTONDOWN branch past the button: white to move,
\* the cell on the grid, "piece and piece.color == 'white'".
MayPickUp(cell) ==
  /\ current_turn = "white"
  /\ WithinBoard(cell)
  /\ PieceAt(cell) # None
  /\ Color[PieceAt(cell)] = "white"

\* pygame.QUIT: pygame.quit(); sys.exit().
Quit ==
  /\ running
  /\ running' = FALSE
  /\ call' = NoCall
  /\ UNCHANGED <<game, result, outcome, demo>>
  /\ UNCHANGED <<dragging, selected_piece, start_cell, game_over, game_result, winner>>

\* pygame.MOUSEBUTTONDOWN with the pointer over cell.
MouseButtonDown(button, cell) ==
  /\ running
  /\ call' = NoCall
  /\ UNCHANGED <<running, result, outcome, demo>>
  /\ IF game_over THEN restart_game
     ELSE IF button = 1 /\ MayPickUp(cell)
     THEN /\ dragging' = TRUE
          /\ selected_piece' = PieceAt(cell)
          /\ start_cell' = cell
          /\ UNCHANGED <<game, game_over, game_result, winner>>
     ELSE Ignored

\* pygame.MOUSEMOTION: only drag_pos is written.
MouseMotion ==
  /\ running
  /\ call' = NoCall
  /\ UNCHANGED <<running, result, outcome, demo>>
  /\ Ignored

\* "result = self.game.make_move(self.start_cell, end_cell)" and the test of
\* the result, r being what make_move returned and left. An accepted move is
\* followed when the game it leads to is among the games explored.
Dropped(r, end_cell) ==
  /\ r.ret # "False" => Explored(r.G.move_history)
  /\ Answered(r)
  /\ EndOfGame(r.ret, "white")
  /\ call' = Call("human", PieceAt(start_cell), selected_piece,
                  current_turn, dragging, game_over)

\* pygame.MOUSEBUTTONUP with the pointer over cell.
MouseButtonUp(button, cell) ==
  /\ running
  /\ UNCHANGED <<running, demo>>
  /\ IF ~game_over /\ button = 1 /\ dragging
     THEN /\ IF WithinBoard(cell) /\ start_cell # cell
             THEN Dropped(make_move(Game, start_cell, cell), cell)
             ELSE /\ call' = NoCall
                  /\ UNCHANGED <<game, result, outcome, game_over, game_result, winner>>
          /\ dragging' = FALSE
          /\ selected_piece' = None
          /\ start_cell' = NoCell
     ELSE /\ call' = NoCall
          /\ UNCHANGED <<result, outcome>>
          /\ Ignored

\* "AI has no valid moves. The game is a stalemate.", selected being what
\* select_move left of the Board.
NoValidMovesForAI(B) ==
  /\ Becomes([Game EXCEPT !.B = B])
  /\ UNCHANGED <<result, outcome>>
  /\ game_over' = TRUE
  /\ game_result' = "stalemate"
  /\ winner' = "None"
  /\ call' = Call("nobody", None, selected_piece, current_turn, dragging, game_over)

\* "result = self.game.make_move(*move)" and the test of the result, r being
\* what make_move returned and left.
AIMoved(r, m) ==
  /\ r.ret # "False" => Explored(r.G.move_history)
  /\ Answered(r)
  /\ EndOfGame(r.ret, "black")
  /\ call' = Call("ai", PieceAt(m[1]), selected_piece, current_turn,
                  dragging, game_over)

\* execute_ai_move from "if move:" on, B being the Board select_move left.
AIPlays(B, m) ==
  IF m = NoMove THEN NoValidMovesForAI(B)
  ELSE AIMoved(make_move([Game EXCEPT !.B = B], m[1], m[2]), m)

\* execute_ai_move, selected being what select_move returned and left.
AISelected(selected) == \E m \in selected.ret : AIPlays(selected.B, m)

\* The AI's turn of run, "if self.game.current_turn == 'black' and not
\* self.dragging and not self.game_over: self.execute_ai_move()".
AITurn ==
  /\ running
  /\ current_turn = "black" /\ ~dragging /\ ~game_over
  /\ AISelected(select_move(Game, ai_player.color))
  /\ UNCHANGED <<dragging, selected_piece, start_cell, running, demo>>

NextUI ==
  \/ Quit
  \/ \E button \in Buttons, cell \in Pointer : MouseButtonDown(button, cell)
  \/ MouseMotion
  \/ \E button \in Buttons, cell \in Pointer : MouseButtonUp(button, cell)
  \/ AITurn

SpecUI == Init /\ [][NextUI]_vars

\* C27. In the UI, whenever the AI's turn comes (the window open, black to
\* move, no drag, game_over false) select_move has a move to return: the
\* branch "AI has no valid moves" of execute_ai_move is never taken, and a
\* call of the human that left black without a valid move has set
\* game_over.
C27_AIHasMove ==
  /\ (current_turn = "black" /\ ~dragging /\ ~game_over) =>
        /\ NoMove \notin select_move(Game, ai_player.color).ret
        /\ has_valid_moves(CB, "black").ret
  /\ call.by # "nobody"
  /\ (current_turn = "black" /\ ~has_valid_moves(CB, "black").ret) =>
        /\ game_over
        /\ outcome \in {"checkmate", "stalemate"}
        /\ game_result = outcome

\* The human's move has left black stalemated: black is to move, not in
\* check, without a valid move, and the game is over.
C27_Witness ==
  /\ current_turn = "black"
  /\ call.by = "human"
  /\ result = "stalemate"
  /\ game_over
  /\ ~KingAttacked(CB, "black")
  /\ NoMove \in select_move(Game, ai_player.color).ret

\* A step of the UI that starts with the game over either restarts the game
\* or leaves the Game object and game_over as they are, and calls make_move
\* in neither case.
NoMoveWhenOver ==
  game_over =>
    /\ call'.by = "none"
    /\ \/ UNCHANGED <<game, game_over, game_result, winner>>
       \/ /\ ~game_over'
          /\ Game' = NewGame
          /\ ~dragging' /\ selected_piece' = None /\ start_cell' = NoCell
          /\ game_result' = "None" /\ winner' = "None"

\* game_over is set exactly by the call that returned "checkmate" or
\* "stalemate", with the result and the winner.
OverWhenEnded ==
  /\ (call.by \in {"human", "ai"} /\ result \in {"checkmate", "stalemate"}) =>
        /\ game_over
        /\ game_result = result
        /\ winner = IF result = "stalemate" THEN "None"
                     ELSE IF call.by = "human" THEN "white" ELSE "black"
  /\ game_over => game_result \in {"checkmate", "stalemate"} /\ ~dragging
  /\ ~game_over => game_result = "None" /\ winner = "None"

C29_HumanMovesWhite ==
  /\ dragging =>
        /\ current_turn = "white"
        /\ ~game_over
        /\ WithinBoard(start_cell)
        /\ selected_piece # None
        /\ PieceAt(start_cell) = selected_piece
        /\ Color[selected_piece] = "white"
  /\ ~dragging => selected_piece = None /\ start_cell = NoCell
  /\ call.by = "ai" => ~call.drag /\ call.turn = "black" /\ call.color = "black"
  /\ call.by = "human" =>
        /\ call.drag
        /\ ~call.over
        /\ call.turn = "white"
        /\ call.held
        /\ call.color = "white"

\* After a reply of the AI the human has picked up a white piece, and black
\* pieces stand where the pointer may press.
C29_Witness ==
  /\ dragging
  /\ Len(move_history) >= 2
  /\ outcome = "continue"
  /\ \E cell \in Squares : Holds(CB, cell, "black")

(***************************************************************************)
(* ai_opponent.py: main, the demo loop. where is the statement the loop is *)
(* about to execute; "exit" is the statement after the loop, which the     *)
(* two break statements lead to.                                           *)
(***************************************************************************)
\* "move = ((1, 4), (3, 4))  # Pawn forward move"
PlayerMove == <<<<1, 4>>, <<3, 4>>>>

\* "if result == "checkmate": ...; break", else on to print_board.
BreakOrPrint(ret) == where' = IF ret = "checkmate" THEN "exit" ELSE "print"

\* "while True: if game.current_turn == 'black':"
DemoTurn ==
  /\ where = "while"
  /\ where' = IF current_turn = "black" THEN "select" ELSE "assign"
  /\ UNCHANGED <<game, result, outcome, move, ui>>

\* move is what select_move returned, B the Board it left.
DemoSelected(B, m) ==
  /\ move' = m
  /\ Becomes([Game EXCEPT !.B = B])

\* "move = ai_player.select_move(game)"
DemoSelect ==
  /\ where = "select"
  /\ \E m \in select_move(Game, ai_player.color).ret :
        DemoSelected(select_move(Game, ai_player.color).B, m)
  /\ where' = "ai"
  /\ UNCHANGED <<result, outcome, ui>>

\* "result = game.make_move(*move)" and the test of the result, r being what
\* make_move returned and left.
DemoMoved(r) == Answered(r) /\ BreakOrPrint(r.ret)

\* "if move: result = game.make_move(*move) ... else: ...; break"
DemoAIMoves ==
  /\ where = "ai"
  /\ IF move # NoMove
     THEN DemoMoved(make_move(Game, move[1], move[2]))
     ELSE where' = "exit" /\ UNCHANGED <<game, result, outcome>>
  /\ UNCHANGED <<move, ui>>

\* "else: move = ((1, 4), (3, 4))"
DemoAssign ==
  /\ where = "assign"
  /\ move' = PlayerMove
  /\ where' = "player"
  /\ UNCHANGED <<game, result, outcome, ui>>

\* "result = game.make_move(*move)" of the player, and the test of the
\* result.
DemoPlayerMoves ==
  /\ where = "player"
  /\ DemoMoved(make_move(Game, move[1], move[2]))
  /\ UNCHANGED <<move, ui>>

\* "game.board.print_board()", the last statement of the loop body.
DemoPrint ==
  /\ where = "print"
  /\ where' = "while"
  /\ UNCHANGED <<game, result, outcome, move, ui>>

NextDemo ==
  \/ DemoTurn
  \/ DemoSelect
  \/ DemoAIMoves
  \/ DemoAssign
  \/ DemoPlayerMoves
  \/ DemoPrint

SpecDemo == Init /\ [][NextDemo]_vars

\* The player's call is accepted on the first iteration and rejected on
\* every later one, leaving the game as it is; the AI's call is accepted and
\* hands the turn to white.
DemoCalls ==
  /\ where = "player" =>
        IF move_history = <<>>
        THEN result' = "continue" /\ move_history' = <<PlayerMove>>
        ELSE result' = "False" /\ UNCHANGED game
  /\ where = "ai" =>
        /\ result' = "continue"
        /\ Len(move_history') = 2
        /\ current_turn' = "white"

\* No break is reached, the loop is at one of its statements and the AI has
\* a move to play; once black has replied, white is to move and no piece
\* stands on (1, 4).
DemoGoesOn ==
  /\ where # "exit"
  /\ Len(move_history) <= 2
  /\ Len(move_history) = 2 =>
        /\ current_turn = "white"
        /\ PieceAt(PlayerMove[1]) = None
        /\ move_history[1] = PlayerMove
  /\ where = "select" => Len(move_history) = 1
  /\ where = "ai" => move # NoMove
  /\ where \in {"while", "select", "ai", "assign", "player", "print"}

====
